---- MODULE Spec2Model ----
(***************************************************************************)
(* Model of the DataAnalysisAgent back end:                                *)
(*   - SessionService (app/services/session_service.py): session index,    *)
(*     session bodies, dataset bulk files and the two in-memory caches;    *)
(*   - the HTTP handlers of app/main.py that call it;                      *)
(*   - UserIntentAgent (app/agents/user_intent_agent.py);                  *)
(*   - DataAnalysisAgent (app/agents/data_analysis_agent.py).              *)
(* Spec       : SessionService, one whole service call per step.           *)
(* SpecApp    : the HTTP handlers over SessionService, one request a step. *)
(* SpecConc   : two add_dataset calls on one session, statement by         *)
(*              statement, with Python's object references made explicit.  *)
(* SpecWrites : the calls of Spec that write files, without the reads.      *)
(* SpecHistory: add_history and the POST /api/analyze requests that call  *)
(*              it, with create, delete, upload and restart.               *)
(* SpecIndex  : the session index (create, rename, delete, list, reads)    *)
(*              over a data directory that holds sessions already.         *)
(* SpecSessions: two sessions with add_dataset, get_dataset_data and      *)
(*              delete_session.                                            *)
(* SpecRace   : a create_session call and a delete_session call on another *)
(*              session, statement by statement.                           *)
(* SpecCtor   : ConfigService() called from several threads, statement by  *)
(*              statement.                                                 *)
(* SpecConfig : one BaseAgent._update_llm_service call next to the poll     *)
(*              thread and the updates of ConfigService.                   *)
(* SpecIntent : UserIntentAgent.execute over prompts and model replies.    *)
(* SpecSandbox: DataAnalysisAgent.execute (app/agents/                     *)
(*              data_analysis_agent.py) over model replies and over what   *)
(*              the generated code does when loaded and run.               *)
(* SpecExtract: _extract_code_from_response on the text of a reply that    *)
(*              has no fenced block.                                       *)
(***************************************************************************)
EXTENDS Integers, Sequences, FiniteSets, TLC

\* ------------------------------------------------------------------ bounds
\* History items one session may hold.
MaxHistory == 2
\* Result tables one analysis run may return.
MaxResults == 1
\* File writes that may fail in one run.
MaxFaults == 1
\* Keywords of one category a prompt may contain.
MaxHits == 2
\* Matches of one pattern in one model reply.
MaxBlocks == 2
\* Keys of the dict the generated analyze_data returns.
MaxLabels == 2
\* Versions config.json and agents.json each go through.
MaxVersions == 3
\* Tokens of one model reply.
MaxTokens == 5

\* Session ids (uuid4 strings issued by create_session).
SessionIds == {"s1"}
\* Dataset ids a caller of SessionService passes in.
CallerDatasetIds == {"d1"}
\* Dataset ids uuid4 issues inside upload_file and analyze_data.
UuidDatasetIds == {"g1", "g2"}
DatasetIds == CallerDatasetIds \cup UuidDatasetIds

\* ------------------------------------------------------------- value model
\* Python dicts are functions from keys to values; `"k" in d` is k \in DOMAIN d.
EmptyMap == [k \in {} |-> 0]

Put(m, k, v) == [x \in (DOMAIN m) \cup {k} |-> IF x = k THEN v ELSE m[x]]

\* Tables handed to the store inline (dataset["data"], a dict column -> values).
\* "tnull" stands for a table holding a None cell.
Tables == {"t1", "tnull"}
\* dataset["data"] that is not a dict (a list of rows).
ListData == "rows"
\* Uploaded original files; the program never removes or rewrites them.
Paths == {"u1"}
None == "None"
NoFile == "NoFile"
Corrupt == "Corrupt"

\* df.to_csv / pd.read_csv: a None cell is written as an empty field and read
\* back as NaN, so the table read differs from the table written.
ToCsv(data) == data
FromCsv(content) == IF content = "tnull" THEN "tnan" ELSE content

\* DataLoader.load_data, lines 38-43: fillna puts 0 in a numeric column and the
\* empty string in any other column where a cell is missing.
Filled(t) == IF t \in {"tnull", "tnan"} THEN "tfilled" ELSE t

\* DataLoader(path).load_data() followed by the column-wise tolist().
LoadUpload(path) == IF path = "u1" THEN "t1" ELSE None

Preview(t) == <<"head5", t>>

\* ------------------------------------------------------------------- state
VARIABLES
    sessions_meta,   \* self.sessions_meta["sessions"]: sequence of index records
    meta_file,       \* sessions_meta.json on disk
    session_files,   \* sessions/<id>.json on disk
    dataset_files,   \* datasets/<dataset_id>.csv on disk
    sessions_cache,  \* self.sessions_cache, by value
    datasets_cache,  \* self.datasets_cache, keyed by (session_id, dataset_id)
    ret,             \* what the last step's get_dataset_data or analyze_data call answered, if it was one
    issued,          \* ids uuid4 has handed out so far
    deleted,         \* created sessions on which delete_session has run
    faults,          \* file writes that have failed so far
    \* two add_dataset calls running statement by statement (SpecConc)
    heap,            \* the session body dicts, by object
    cache_ref,       \* the object self.sessions_cache[session_id] refers to
    pc,              \* where each call stands
    session_ref,     \* each call's local session_data: the object it refers to
    adding,          \* each call's dataset argument
    \* create_session next to delete_session, statement by statement (SpecRace)
    race,            \* where the two calls stand, and their locals
    \* ConfigService() called from several threads (SpecCtor)
    ctor,            \* the class attributes, the instance's, and where each call stands
    \* UserIntentAgent.execute (SpecIntent)
    user_prompt,     \* the prompt of the last call
    llm,             \* what the language-model call did in the last call
    intent_result,   \* how the last call ended
    \* DataAnalysisAgent.execute (SpecSandbox)
    raw_content,     \* the model's reply of the last call
    generated_code,  \* self.generated_code
    behaviour,       \* what the environment and the generated code did in the last call
    analysis_result, \* how the last call ended
    temp_module_path, \* the temporary file of the last call
    temp_dir,        \* the temporary files on disk
    \* ConfigService and BaseAgent._update_llm_service (SpecConfig)
    config_file,     \* config.json: the version of its content (its mtime)
    agents_file,     \* agents.json: the version of its content (its mtime)
    agents_versions, \* what each version of the agents configuration holds
    config,          \* self.config: the version it holds
    agents_config,   \* self.agents_config: the dict object it refers to
    agents_heap,     \* the agents dict objects: the version each holds
    config_last_modified,
    agents_last_modified,
    environ,         \* os.environ's model name: the version it came from
    reader           \* one _update_llm_service call: its position and locals

storeVars == <<sessions_meta, meta_file, session_files, dataset_files,
               sessions_cache, datasets_cache, ret, issued, deleted, faults>>

concVars == <<heap, cache_ref, pc, session_ref, adding, race, ctor>>

intentVars == <<user_prompt, llm, intent_result>>

sandboxVars == <<raw_content, generated_code, behaviour, analysis_result,
                 temp_module_path, temp_dir>>

configVars == <<config_file, agents_file, agents_versions, config, agents_config,
                agents_heap, config_last_modified, agents_last_modified, environ,
                reader>>

vars == <<storeVars, concVars, intentVars, sandboxVars, configVars>>

NotCached == [k |-> "none"]
NoBodyFile == [k |-> "nofile"]
CorruptBody == [k |-> "corrupt"]
NewBody == [k |-> "body", datasets |-> EmptyMap, history |-> <<>>]

IsBody(b) == b.k = "body"

MetaIds(meta) == {meta[i].id : i \in 1..Len(meta)}

RECURSIVE SelectSeq2(_, _)
SelectSeq2(seq, drop) ==
    IF seq = <<>> THEN <<>>
    ELSE IF Head(seq).id = drop THEN SelectSeq2(Tail(seq), drop)
         ELSE <<Head(seq)>> \o SelectSeq2(Tail(seq), drop)

\* ----------------------------------------- parts idle outside their own spec
Threads == {"A", "B"}
ObjIds == {"O", "PA", "PB"}
NoObject == "none"
NoDataset == [name |-> "none"]

\* No create_session and no delete_session call is under way.
RaceIdle ==
    [create |-> "idle", delete |-> "idle",
     session_meta |-> [id |-> "-", name |-> "-", created_at |-> "-", updated_at |-> "-"],
     filtered |-> <<>>]

\* The threads that call ConfigService().
CtorThreads == {"A", "B", "C"}
NoInstance == "none"

\* No ConfigService() call has been made: _instance is None.
CtorIdle ==
    [instance |-> NoInstance, initialized |-> FALSE, loads |-> 0, monitors |-> 0,
     at |-> [t \in CtorThreads |-> "start"],
     self |-> [t \in CtorThreads |-> NoInstance]]

ConcIdle ==
    /\ heap = [o \in ObjIds |-> NotCached]
    /\ cache_ref = NoObject
    /\ pc = [t \in Threads |-> "idle"]
    /\ session_ref = [t \in Threads |-> NoObject]
    /\ adding = [t \in Threads |-> NoDataset]
    /\ race = RaceIdle
    /\ ctor = CtorIdle

\* AGENT_TYPES in the order of the dict literal.
AgentTypeOrder ==
    <<"data_analysis", "data_visualization", "data_analysis_plan",
      "data_analysis_conclusion">>

AGENT_TYPES == {AgentTypeOrder[i] : i \in 1..Len(AgentTypeOrder)}

IntentIdle ==
    /\ user_prompt = [a \in AGENT_TYPES |-> 0]
    /\ llm = [k |-> "none"]
    /\ intent_result = [k |-> "idle"]

\* A text cut out of a reply: the part it is and which match of that part.
\* DataAnalysisAgent.__init__, line 18: generated_code = "".
NoCode == [part |-> "none", i |-> 0]
NoReply == [fenced |-> <<>>, defs |-> <<>>]
NoValue == [shape |-> "-", items |-> <<>>]
NoBehaviour ==
    [llm |-> "-", write |-> "-", load |-> "-", entry |-> "-", run |-> "-",
     value |-> NoValue]
NotRun == [k |-> "idle", exc |-> "-", msg |-> "-", label |-> "-", value |-> EmptyMap]
NoPath == "-"

SandboxIdle ==
    /\ raw_content = NoReply
    /\ generated_code = NoCode
    /\ behaviour = NoBehaviour
    /\ analysis_result = NotRun
    /\ temp_module_path = NoPath
    /\ temp_dir = {}

\* Versions one configuration file goes through.
ConfigVersions == 1..MaxVersions
\* No entry for an agent id in the agents configuration; no dict object yet.
NoVersion == 0
\* get_agent_config returning None.
NoEntry == [obj |-> NoVersion]
\* A value not read yet.
Unread == [from |-> "-", v |-> NoVersion]

\* What a version of agents.json holds: for the entry of the agent and for
\* the entry with id 'default', the version that gave the entry its
\* config.service_type and config.model, or NoVersion.
AgentsContents(v) == {[agent |-> a, default |-> d] : a, d \in {NoVersion, v}}

ReaderIdle ==
    [pc |-> "idle", agent_config |-> NoEntry, default_config |-> NoEntry,
     service_type |-> Unread, model |-> Unread, llm_service |-> <<Unread, Unread>>]

\* ConfigService.__init__ (lines 19-42): both files loaded, no agent yet.
ConfigInit ==
    \E content \in AgentsContents(1) :
        /\ config_file = 1
        /\ agents_file = 1
        /\ agents_versions = <<content>>
        /\ config = 1
        /\ agents_config = 1
        /\ agents_heap = [g \in ConfigVersions |-> IF g = 1 THEN 1 ELSE NoVersion]
        /\ config_last_modified = 1
        /\ agents_last_modified = 1
        /\ environ = 1
        /\ reader = ReaderIdle

\* Outside SpecConfig the default files are in place and nothing changes them.
ConfigIdle ==
    /\ config_file = 1
    /\ agents_file = 1
    /\ agents_versions = <<[agent |-> NoVersion, default |-> NoVersion]>>
    /\ config = 1
    /\ agents_config = 1
    /\ agents_heap = [g \in ConfigVersions |-> IF g = 1 THEN 1 ELSE NoVersion]
    /\ config_last_modified = 1
    /\ agents_last_modified = 1
    /\ environ = 1
    /\ reader = ReaderIdle

\* --------------------------------------------------- SessionService helpers
\* _load_session_data: a missing or unparseable body file gives the default body.
LoadSessionData(files, s) == IF IsBody(files[s]) THEN files[s] ELSE NewBody

\* get_session: the cached body if there is one, else the body loaded from disk.
GetSessionBody(cache, files, s) ==
    IF cache[s] # NotCached THEN cache[s] ELSE LoadSessionData(files, s)

\* get_session stores what it loaded in the cache (line 142).
GetSessionCache(cache, files, s) ==
    [cache EXCEPT ![s] = GetSessionBody(cache, files, s)]

\* Outcomes of a file write: done, refused before the file was touched,
\* or broken off after the file was truncated.
WriteOutcomes == {"ok", "fail", "partial"}
\* pd.DataFrame(data).to_csv fails the same ways.
CsvOutcomes == WriteOutcomes

\* _save_session_data: json.dump into sessions/<id>.json, errors swallowed.
SaveSessionData(files, s, body, outcome) ==
    CASE outcome = "ok" -> [files EXCEPT ![s] = body]
      [] outcome = "fail" -> files
      [] OTHER -> [files EXCEPT ![s] = CorruptBody]

\* _save_dataset_to_csv: the bulk file after the call; it returns outcome = "ok".
SaveDatasetToCsv(files, d, data, outcome) ==
    CASE outcome = "ok" -> [files EXCEPT ![d] = ToCsv(data)]
      [] outcome = "fail" -> files
      [] OTHER -> [files EXCEPT ![d] = Corrupt]

\* _load_dataset_from_csv: None when the file is missing or read_csv raises.
LoadDatasetFromCsv(files, d) ==
    IF files[d] \in {NoFile, Corrupt} THEN None ELSE FromCsv(files[d])

IsDict(data) == data \in Tables

\* add_dataset recording the dataset dict it was handed instead of building
\* the metadata entry.
DatasetMetaKeepsData(dataset, d, saved) ==
    dataset @@ (IF saved THEN [data_file |-> d] ELSE EmptyMap)

\* The metadata entry add_dataset records (lines 257-272).
DatasetMeta(dataset, d, saved) ==
    [name |-> dataset.name, type |-> dataset.type, preview |-> dataset.preview]
    @@ (IF "path" \in DOMAIN dataset THEN [path |-> dataset.path] ELSE EmptyMap)
    @@ (IF saved THEN [data_file |-> d] ELSE EmptyMap)

\* The metadata add_history puts in place of an inline dataset (lines 373-384).
HistoryDatasetMeta(dataset, d, saved) ==
    [name |-> dataset.name, type |-> dataset.type, preview |-> dataset.preview]
    @@ (IF saved THEN [data_file |-> d] ELSE EmptyMap)

\* ------------------------------------------------------------ call arguments
UploadedDataset(path) ==
    [name |-> path, type |-> "uploaded", preview |-> Preview(LoadUpload(path)),
     path |-> path]

GeneratedDataset(t) ==
    [name |-> "result", type |-> "generated", data |-> t, preview |-> Preview(t)]

\* A dataset dict carrying both its source path and its table.
UploadedWithData(path) ==
    UploadedDataset(path) @@ [data |-> LoadUpload(path)]

DatasetArgs ==
    {UploadedDataset(p) : p \in Paths} \cup {GeneratedDataset(t) : t \in Tables}
    \cup {UploadedWithData("u1")}

NoRet == [op |-> "none", s |-> "-", d |-> "-", val |-> None]
Returned(s, d, val) == [op |-> "get_dataset_data", s |-> s, d |-> d, val |-> val]

\* What one POST /api/analyze request was and how it ended: the HTTP status
\* ("400" and "500" are raised exceptions, "200" a returned body), whether
\* UserIntentAgent.execute was called (line 127), the agent that was run
\* ("none" when none was), the success, result_type and datasets fields of
\* the returned body, and the tables the analysis produced, by dataset id.
Analyzed(s, selected, status, routed, handler, success, result_type, datasets, produced) ==
    [op |-> "analyze", s |-> s, selected |-> selected, status |-> status,
     routed |-> routed, handler |-> handler, success |-> success,
     result_type |-> result_type, datasets |-> datasets, produced |-> produced]

Cost(outcome) == IF outcome = "ok" THEN 0 ELSE 1

\* ------------------------------------------------- SessionService, as code
\* add_dataset up to line 276: <<session body, bulk files>> afterwards.
ApplyAddDataset(session_data, dsfiles, d, dataset, csv) ==
    LET hasData == "data" \in DOMAIN dataset /\ IsDict(dataset.data)
        saved == hasData /\ csv = "ok"
        dataset_meta == DatasetMeta(dataset, d, saved)
    IN <<[session_data EXCEPT !.datasets = Put(@, d, dataset_meta)],
         IF hasData THEN SaveDatasetToCsv(dsfiles, d, dataset.data, csv) ELSE dsfiles>>

\* add_history replacing an inline dataset only when its bulk file was
\* written.
ExternalizeSavedOnly(item, csvOf) ==
    IF "datasets" \notin DOMAIN item THEN item
    ELSE [item EXCEPT !.datasets =
            [d \in DOMAIN item.datasets |->
                IF "data" \in DOMAIN item.datasets[d] /\ csvOf[d] = "ok"
                THEN HistoryDatasetMeta(item.datasets[d], d, TRUE)
                ELSE item.datasets[d]]]

\* add_history, lines 369-384: every inline dataset of the item is written to
\* its bulk file and replaced in the item by its metadata.
ExternalizeItem(item, csvOf) ==
    IF "datasets" \notin DOMAIN item THEN item
    ELSE [item EXCEPT !.datasets =
            [d \in DOMAIN item.datasets |->
                IF "data" \in DOMAIN item.datasets[d]
                THEN HistoryDatasetMeta(item.datasets[d], d, csvOf[d] = "ok")
                ELSE item.datasets[d]]]

InlineIds(item) ==
    IF "datasets" \notin DOMAIN item THEN {}
    ELSE {d \in DOMAIN item.datasets : "data" \in DOMAIN item.datasets[d]}

\* add_history putting the item in front of the history.
AddHistoryInFront(session_data, dsfiles, item, csvOf) ==
    <<[session_data EXCEPT !.history = <<ExternalizeItem(item, csvOf)>> \o @],
      [d \in DOMAIN dsfiles |->
          IF d \in InlineIds(item)
          THEN SaveDatasetToCsv(dsfiles, d, item.datasets[d].data, csvOf[d])[d]
          ELSE dsfiles[d]]>>

\* add_history up to line 387: <<session body, bulk files>> afterwards.
ApplyAddHistory(session_data, dsfiles, item, csvOf) ==
    <<[session_data EXCEPT !.history = Append(@, ExternalizeItem(item, csvOf))],
      [d \in DOMAIN dsfiles |->
          IF d \in InlineIds(item)
          THEN SaveDatasetToCsv(dsfiles, d, item.datasets[d].data, csvOf[d])[d]
          ELSE dsfiles[d]]>>

\* get_dataset_data: <<value returned, datasets_cache afterwards>>.
GetDatasetDataResult(dcache, cache, files, dsfiles, s, d) ==
    LET session_data == GetSessionBody(cache, files, s) IN
    IF dcache[<<s, d>>] # None THEN <<dcache[<<s, d>>], dcache>>
    ELSE IF d \notin DOMAIN session_data.datasets THEN <<None, dcache>>
    ELSE LET dataset_meta == session_data.datasets[d] IN
         IF "data_file" \in DOMAIN dataset_meta
         THEN LET data == LoadDatasetFromCsv(dsfiles, d) IN
              IF data # None THEN <<data, [dcache EXCEPT ![<<s, d>>] = data]>>
              ELSE <<None, dcache>>
         ELSE IF "path" \in DOMAIN dataset_meta
         THEN LET data == LoadUpload(dataset_meta.path) IN
              IF data # None THEN <<data, [dcache EXCEPT ![<<s, d>>] = data]>>
              ELSE <<None, dcache>>
         ELSE <<None, dcache>>

\* get_dataset_data reaches get_session only after a miss in datasets_cache.
GetDatasetDataSessions(dcache, cache, files, s, d) ==
    IF dcache[<<s, d>>] # None THEN cache ELSE GetSessionCache(cache, files, s)

\* The files of the data directory a delete_session call may find it cannot
\* remove: the body file (BodyFile) and the bulk files, by dataset id.
BodyFile == "body"

\* delete_session, lines 214-219: the body file is removed if it is there and
\* os.remove does not raise.
DeleteBodyFile(files, s, stuck) ==
    IF BodyFile \in stuck THEN files ELSE [files EXCEPT ![s] = NoBodyFile]

\* delete_session giving up at the first removal that raises.
DeleteAllOrNothing(cache, files, dsfiles, s, stuck) ==
    LET session_data == GetSessionBody(cache, DeleteBodyFile(files, s, stuck), s)
    IN [d \in DatasetIds |->
            IF d \in DOMAIN session_data.datasets /\ stuck = {}
            THEN NoFile ELSE dsfiles[d]]

\* delete_session, lines 221-230: the bulk files of the datasets that
\* get_session finds once the body file has been dealt with; a file whose
\* removal raises stays, and the loop goes on.
DeleteSessionFiles(cache, files, dsfiles, s, stuck) ==
    LET session_data == GetSessionBody(cache, DeleteBodyFile(files, s, stuck), s)
    IN [d \in DatasetIds |->
            IF d \in DOMAIN session_data.datasets /\ d \notin stuck
            THEN NoFile ELSE dsfiles[d]]

\* Only a removal the call attempts can fail: the file is on disk
\* (os.path.exists, lines 215 and 225) and, for a bulk file, its dataset is
\* one the loop visits.
DeleteAttempts(cache, files, dsfiles, s, stuck) ==
    (IF files[s] # NoBodyFile THEN {BodyFile} ELSE {})
    \cup {d \in DatasetIds :
            /\ dsfiles[d] # NoFile
            /\ d \in DOMAIN GetSessionBody(cache, DeleteBodyFile(files, s, stuck),
                                           s).datasets}

\* uuid4 handing out an id again.
Uuid4Again(given) == SessionIds

\* str(uuid.uuid4()), line 154: an id not given before.
Uuid4(given) == SessionIds \ given

\* The index record create_session builds (lines 157-162).
SessionMeta(id, name, now) ==
    [id |-> id, name |-> name, created_at |-> now, updated_at |-> now]

\* Session names, and the values datetime.now().isoformat() takes: the wall
\* clock, which may stand still or go back between two calls.
Names == {"new", "renamed"}
Times == {"09:00", "09:01"}
\* Spec, SpecApp and SpecConc do not follow names and the clock; a body write
\* of create_session that fails and, in SpecApp, a removal of delete_session
\* that fails are followed in SpecIndex and Spec.
DefaultName == "new"
StartTime == "09:00"

\* rename_session renaming every record of the index.
RenameAll(meta, s, new_name, now) ==
    [i \in 1..Len(meta) |-> [meta[i] EXCEPT !.name = new_name, !.updated_at = now]]

\* rename_session, lines 189-194: the first record with that id gets the name
\* and a new updated_at.
RenameIn(meta, s, new_name, now) ==
    [i \in 1..Len(meta) |->
        IF meta[i].id = s /\ \A j \in 1..(i - 1) : meta[j].id # s
        THEN [meta[i] EXCEPT !.name = new_name, !.updated_at = now]
        ELSE meta[i]]

\* What create_session, rename_session and list_sessions return.
Created(session_meta) == [op |-> "create_session", val |-> session_meta]
Renamed(s, new_name, success) ==
    [op |-> "rename_session", s |-> s, name |-> new_name, success |-> success,
     status |-> IF success THEN "200" ELSE "404"]
Listed(sessions) == [op |-> "list_sessions", val |-> sessions]

\* delete_session returns True on every path (line 236); DELETE
\* /api/session/{id} answers 404 when it is given False (main.py 314-321).
Deleted(s, success) ==
    [op |-> "delete_session", s |-> s, success |-> success,
     status |-> IF success THEN "200" ELSE "404"]

\* history items handed to add_history
UserItem == [role |-> "user"]
AssistantItem(result_type) == [role |-> "assistant", result_type |-> result_type]
AnalysisItem(datasets) ==
    [role |-> "assistant", result_type |-> "analysis", datasets |-> datasets]

HistoryArgs ==
    {UserItem, AssistantItem("analysis_plan")}
    \cup {AnalysisItem(d :> GeneratedDataset(t)) : d \in CallerDatasetIds, t \in Tables}

SumCost(f) ==
    LET RECURSIVE Sum(_)
        Sum(S) == IF S = {} THEN 0
                  ELSE LET x == CHOOSE x \in S : TRUE IN Cost(f[x]) + Sum(S \ {x})
    IN Sum(DOMAIN f)

\* The three parts of the store a session mutation touches.
Store == [cache |-> sessions_cache, files |-> session_files, dsfiles |-> dataset_files]

\* add_dataset(s, d, dataset) as a whole: get_session, metadata insert, cache
\* store, body write.
AddDatasetCall(st, s, d, dataset, csv, save) ==
    LET session_data == GetSessionBody(st.cache, st.files, s)
        r == ApplyAddDataset(session_data, st.dsfiles, d, dataset, csv)
    IN [cache |-> [st.cache EXCEPT ![s] = r[1]],
        files |-> SaveSessionData(st.files, s, r[1], save),
        dsfiles |-> r[2]]

\* add_history storing the history in a body without the datasets map.
AddHistoryDroppingDatasets(st, s, item, csvOf, save) ==
    LET session_data == GetSessionBody(st.cache, st.files, s)
        r == ApplyAddHistory([session_data EXCEPT !.datasets = EmptyMap],
                             st.dsfiles, item, csvOf)
    IN [cache |-> [st.cache EXCEPT ![s] = r[1]],
        files |-> SaveSessionData(st.files, s, r[1], save),
        dsfiles |-> r[2]]

\* add_history(s, item) as a whole.
AddHistoryCall(st, s, item, csvOf, save) ==
    LET session_data == GetSessionBody(st.cache, st.files, s)
        r == ApplyAddHistory(session_data, st.dsfiles, item, csvOf)
    IN [cache |-> [st.cache EXCEPT ![s] = r[1]],
        files |-> SaveSessionData(st.files, s, r[1], save),
        dsfiles |-> r[2]]

\* get_datasets(s): get_session keeps what it loaded.
GetDatasetsCall(st, s) == [st EXCEPT !.cache = GetSessionCache(st.cache, st.files, s)]

SetStore(st) ==
    /\ sessions_cache' = st.cache
    /\ session_files' = st.files
    /\ dataset_files' = st.dsfiles

\* ------------------------------------------------------------------ actions
\* SessionService.__init__ of a new process over the same data directory.
Restart ==
    /\ sessions_meta' = meta_file
    /\ sessions_cache' = [s \in DOMAIN sessions_cache |-> NotCached]
    /\ datasets_cache' = [k \in DOMAIN datasets_cache |-> None]
    /\ ret' = NoRet
    /\ UNCHANGED <<meta_file, session_files, dataset_files, issued, deleted, faults,
                   concVars, intentVars, sandboxVars, configVars>>

\* create_session (lines 145-176): uuid4 gives an id never given before; the
\* body write may fail, which _save_session_data swallows.
CreateSession(name, now, save) ==
    \E id \in Uuid4(issued) :
        LET session_meta == SessionMeta(id, name, now) IN
        /\ faults + Cost(save) <= MaxFaults
        /\ faults' = faults + Cost(save)
        /\ sessions_meta' = Append(sessions_meta, session_meta)
        /\ meta_file' = sessions_meta'
        /\ session_files' = SaveSessionData(session_files, id, NewBody, save)
        /\ sessions_cache' = [sessions_cache EXCEPT ![id] = NewBody]
        /\ issued' = issued \cup {id}
        /\ ret' = Created(session_meta)
    /\ UNCHANGED <<dataset_files, datasets_cache, deleted,
                   concVars, intentVars, sandboxVars, configVars>>

\* rename_session (lines 178-196).
RenameSession(s, new_name, now) ==
    /\ sessions_meta' = RenameIn(sessions_meta, s, new_name, now)
    /\ meta_file' = IF s \in MetaIds(sessions_meta) THEN sessions_meta' ELSE meta_file
    /\ ret' = Renamed(s, new_name, s \in MetaIds(sessions_meta))
    /\ UNCHANGED <<session_files, dataset_files, sessions_cache, datasets_cache,
                   issued, deleted, faults, concVars, intentVars, sandboxVars, configVars>>

\* list_sessions (lines 238-244).
ListSessions ==
    /\ ret' = Listed(sessions_meta)
    /\ UNCHANGED <<sessions_meta, meta_file, session_files, dataset_files,
                   sessions_cache, datasets_cache, issued, deleted, faults,
                   concVars, intentVars, sandboxVars, configVars>>

DeleteSession(s, stuck) ==
    /\ stuck \subseteq DeleteAttempts(sessions_cache, session_files, dataset_files,
                                      s, stuck)
    /\ faults + Cardinality(stuck) <= MaxFaults
    /\ faults' = faults + Cardinality(stuck)
    /\ sessions_meta' = SelectSeq2(sessions_meta, s)
    /\ meta_file' = sessions_meta'
    /\ session_files' = DeleteBodyFile(session_files, s, stuck)
    /\ dataset_files' = DeleteSessionFiles(sessions_cache, session_files,
                                          dataset_files, s, stuck)
    /\ sessions_cache' = [sessions_cache EXCEPT ![s] = NotCached]
    /\ deleted' = IF s \in issued THEN deleted \cup {s} ELSE deleted
    /\ ret' = Deleted(s, TRUE)
    /\ UNCHANGED <<datasets_cache, issued,
                   concVars, intentVars, sandboxVars, configVars>>

AddDataset(s, d, dataset, csv, save) ==
    /\ ("data" \in DOMAIN dataset /\ IsDict(dataset.data)) \/ csv = "ok"
    /\ faults + Cost(csv) + Cost(save) <= MaxFaults
    /\ faults' = faults + Cost(csv) + Cost(save)
    /\ SetStore(AddDatasetCall(Store, s, d, dataset, csv, save))
    /\ ret' = NoRet
    /\ UNCHANGED <<sessions_meta, meta_file, datasets_cache, issued, deleted,
                   concVars, intentVars, sandboxVars, configVars>>

AddHistory(s, item, csvOf, save) ==
    /\ Len(GetSessionBody(sessions_cache, session_files, s).history) < MaxHistory
    /\ faults + SumCost(csvOf) + Cost(save) <= MaxFaults
    /\ faults' = faults + SumCost(csvOf) + Cost(save)
    /\ SetStore(AddHistoryCall(Store, s, item, csvOf, save))
    /\ ret' = NoRet
    /\ UNCHANGED <<sessions_meta, meta_file, datasets_cache, issued, deleted,
                   concVars, intentVars, sandboxVars, configVars>>

GetDatasetData(s, d) ==
    /\ datasets_cache' = GetDatasetDataResult(datasets_cache, sessions_cache,
                                session_files, dataset_files, s, d)[2]
    /\ sessions_cache' = GetDatasetDataSessions(datasets_cache, sessions_cache,
                                session_files, s, d)
    /\ ret' = Returned(s, d, GetDatasetDataResult(datasets_cache, sessions_cache,
                                session_files, dataset_files, s, d)[1])
    /\ UNCHANGED <<sessions_meta, meta_file, session_files, dataset_files,
                   issued, deleted, faults,
                   concVars, intentVars, sandboxVars, configVars>>

\* get_datasets and get_history: get_session keeps what it loaded.
GetDatasets(s) ==
    /\ sessions_cache' = GetSessionCache(sessions_cache, session_files, s)
    /\ ret' = NoRet
    /\ UNCHANGED <<sessions_meta, meta_file, session_files, dataset_files,
                   datasets_cache, issued, deleted, faults,
                   concVars, intentVars, sandboxVars, configVars>>

StoreInit ==
    /\ sessions_meta = <<>>
    /\ meta_file = <<>>
    /\ session_files = [s \in SessionIds |-> NoBodyFile]
    /\ dataset_files = [d \in DatasetIds |-> NoFile]
    /\ sessions_cache = [s \in SessionIds |-> NotCached]
    /\ datasets_cache = [k \in SessionIds \X DatasetIds |-> None]
    /\ ret = NoRet
    /\ issued = {}
    /\ deleted = {}
    /\ faults = 0

Init == StoreInit /\ ConcIdle /\ IntentIdle /\ SandboxIdle /\ ConfigIdle

Next ==
    \/ Restart
    \/ CreateSession(DefaultName, StartTime, "ok")
    \/ \E s \in SessionIds, stuck \in SUBSET ({BodyFile} \cup DatasetIds) :
          DeleteSession(s, stuck)
    \/ \E s \in SessionIds, d \in CallerDatasetIds, dataset \in DatasetArgs,
          csv \in CsvOutcomes, save \in WriteOutcomes :
            AddDataset(s, d, dataset, csv, save)
    \/ \E s \in SessionIds, item \in HistoryArgs, save \in WriteOutcomes :
          \E csvOf \in [InlineIds(item) -> CsvOutcomes] :
            AddHistory(s, item, csvOf, save)
    \/ \E s \in SessionIds, d \in CallerDatasetIds : GetDatasetData(s, d)
    \/ \E s \in SessionIds : GetDatasets(s)

Spec == Init /\ [][Next]_vars

\* The calls of SessionService that write files, without the reads.
NextWrites ==
    \/ Restart
    \/ CreateSession(DefaultName, StartTime, "ok")
    \/ \E s \in SessionIds, stuck \in SUBSET ({BodyFile} \cup DatasetIds) :
          DeleteSession(s, stuck)
    \/ \E s \in SessionIds, d \in CallerDatasetIds, dataset \in DatasetArgs,
          csv \in CsvOutcomes, save \in WriteOutcomes :
            AddDataset(s, d, dataset, csv, save)
    \/ \E s \in SessionIds, item \in HistoryArgs, save \in WriteOutcomes :
          \E csvOf \in [InlineIds(item) -> CsvOutcomes] :
            AddHistory(s, item, csvOf, save)

SpecWrites == Init /\ [][NextWrites]_vars

\* ------------------------------------------------ the session index (SpecIndex)
\* The bodies a session of the data directory may hold at construction.
InitBodies ==
    {NewBody,
     [NewBody EXCEPT !.datasets = "d1" :> DatasetMeta(UploadedDataset("u1"), "d1", FALSE)]}

\* A session of the data directory that an earlier process created.
OldSession == "s0"
IndexIds == SessionIds \cup {OldSession}

\* SessionService.__init__ over a data directory that holds OldSession.
InitIndex ==
    \E body \in InitBodies :
        /\ sessions_meta = <<SessionMeta(OldSession, DefaultName, StartTime)>>
        /\ meta_file = sessions_meta
        /\ session_files = [s \in IndexIds |-> IF s = OldSession THEN body ELSE NoBodyFile]
        /\ dataset_files = [d \in DatasetIds |-> NoFile]
        /\ sessions_cache = [s \in IndexIds |-> NotCached]
        /\ datasets_cache = [k \in IndexIds \X DatasetIds |-> None]
        /\ ret = NoRet
        /\ issued = {}
        /\ deleted = {}
        /\ faults = 0
        /\ ConcIdle
        /\ IntentIdle
        /\ SandboxIdle
        /\ ConfigIdle

NextIndex ==
    \/ Restart
    \/ \E name \in Names, now \in Times, save \in WriteOutcomes :
          CreateSession(name, now, save)
    \/ \E s \in IndexIds, new_name \in Names, now \in Times :
          RenameSession(s, new_name, now)
    \/ \E s \in IndexIds, stuck \in SUBSET ({BodyFile} \cup DatasetIds) :
          DeleteSession(s, stuck)
    \/ ListSessions
    \/ \E s \in IndexIds : GetDatasets(s)

SpecIndex == InitIndex /\ [][NextIndex]_vars

\* Two sessions, OldSession and the one create_session makes, with the calls
\* that record, read and remove datasets.
NextSessions ==
    \/ Restart
    \/ CreateSession(DefaultName, StartTime, "ok")
    \/ \E s \in IndexIds, d \in CallerDatasetIds, dataset \in DatasetArgs :
          AddDataset(s, d, dataset, "ok", "ok")
    \/ \E s \in IndexIds, d \in CallerDatasetIds : GetDatasetData(s, d)
    \/ \E s \in IndexIds : DeleteSession(s, {})

SpecSessions == InitIndex /\ [][NextSessions]_vars

\* ------------------------------------------------- app/main.py, the handlers
\* agent_type values UserIntentAgent.execute hands back to analyze_data;
\* "chart" stands for a value outside AGENT_TYPES.
AgentTypeValues ==
    {"data_analysis", "data_visualization", "data_analysis_plan",
     "data_analysis_conclusion", "chart"}

\* ResultType with the else branch of lines 257-264 answering as a plan.
ResultTypeNoError(agent_type) ==
    IF agent_type = "data_analysis" THEN "analysis" ELSE "analysis_plan"

\* result_type analyze_data records for the agent it ran (lines 175-264).
ResultType(agent_type) ==
    CASE agent_type = "data_analysis" -> "analysis"
      [] agent_type = "data_visualization" -> "visualization"
      [] agent_type = "data_analysis_plan" -> "analysis_plan"
      [] agent_type = "data_analysis_conclusion" -> "analysis_conclusion"
      [] OTHER -> "error"

\* Inputs without the checks of lines 102-120: every selected id counts.
InputsUnchecked(datasets, dsfiles, selected) == selected

\* analyze_data, lines 101-120: the selected datasets that load as inputs.
Inputs(datasets, dsfiles, selected) ==
    {d \in selected \cap DOMAIN datasets :
        /\ datasets[d].type \in {"uploaded", "generated"}
        /\ IF "path" \in DOMAIN datasets[d] THEN LoadUpload(datasets[d].path) # None
           ELSE IF "data_file" \in DOMAIN datasets[d]
                THEN LoadDatasetFromCsv(dsfiles, d) # None
                ELSE "data" \in DOMAIN datasets[d]}

\* The tables DataAnalysisAgent.execute returns, in the order of its dict.
ResultSeqs == UNION {[1..n -> Tables] : n \in 0..MaxResults}

\* The file writes one analyze_data run performs.
ReplyWrites == {<<"user", 0>>, <<"reply", 0>>}
ResultWrites(n) == {"add_csv", "add_save", "reply_csv"} \X (1..n)

\* analyze_data, lines 156-168: add_dataset for every result, in order.
RECURSIVE AddResults(_, _, _, _, _, _)
AddResults(st, s, ids, results, w, i) ==
    IF i > Len(results) THEN st
    ELSE AddResults(
            AddDatasetCall(st, s, ids[i], GeneratedDataset(results[i]),
                           w[<<"add_csv", i>>], w[<<"add_save", i>>]),
            s, ids, results, w, i + 1)

\* result_datasets of line 168: uuid -> the dataset_info handed to add_dataset.
ResultDatasets(ids, results) ==
    [d \in {ids[i] : i \in 1..Len(results)} |->
        GeneratedDataset(results[CHOOSE i \in 1..Len(results) : ids[i] = d])]

\* POST /api/upload once the file is saved and loaded: add_dataset under a
\* fresh uuid.
UploadFile(s, path, save) ==
    \E dataset_id \in UuidDatasetIds \ issued :
        /\ faults + Cost(save) <= MaxFaults
        /\ faults' = faults + Cost(save)
        /\ SetStore(AddDatasetCall(Store, s, dataset_id, UploadedDataset(path), "ok", save))
        /\ issued' = issued \cup {dataset_id}
        /\ ret' = NoRet
        /\ UNCHANGED <<sessions_meta, meta_file, datasets_cache, deleted,
                   concVars, intentVars, sandboxVars, configVars>>

\* POST /api/analyze stopped before any write: no selected dataset loads
\* (400), or UserIntentAgent.execute raises.
AnalyzeDataRejected(s, selected, intentRaises) ==
    LET st0 == GetDatasetsCall(Store, s)
        inputs == Inputs(st0.cache[s].datasets, st0.dsfiles, selected)
    IN /\ inputs = {} \/ intentRaises
       /\ SetStore(st0)
       /\ ret' = IF inputs = {}
                 THEN Analyzed(s, selected, "400", FALSE, "none", FALSE, "-",
                               EmptyMap, EmptyMap)
                 ELSE Analyzed(s, selected, "500", TRUE, "none", FALSE, "-",
                               EmptyMap, EmptyMap)
       /\ UNCHANGED <<sessions_meta, meta_file, datasets_cache, issued, deleted, faults,
                   concVars, intentVars, sandboxVars, configVars>>

\* POST /api/analyze past intent recognition: the user message is recorded,
\* then the chosen agent raises.
AnalyzeDataAgentRaises(s, selected, agent_type, save) ==
    LET st0 == GetDatasetsCall(Store, s)
        inputs == Inputs(st0.cache[s].datasets, st0.dsfiles, selected)
    IN /\ inputs # {}
       /\ Len(st0.cache[s].history) < MaxHistory
       /\ faults + Cost(save) <= MaxFaults
       /\ faults' = faults + Cost(save)
       /\ SetStore(AddHistoryCall(st0, s, UserItem, EmptyMap, save))
       /\ ret' = Analyzed(s, selected, "500", TRUE, agent_type, FALSE, "-",
                         EmptyMap, EmptyMap)
       /\ UNCHANGED <<sessions_meta, meta_file, datasets_cache, issued, deleted,
                   concVars, intentVars, sandboxVars, configVars>>

\* POST /api/analyze with agent_type = "data_analysis" (lines 147-186).
AnalyzeDataAnalysis(s, selected, results, ids, w) ==
    LET st0 == GetDatasetsCall(Store, s)
        inputs == Inputs(st0.cache[s].datasets, st0.dsfiles, selected)
        st1 == AddHistoryCall(st0, s, UserItem, EmptyMap, w[<<"user", 0>>])
        st2 == AddResults(st1, s, ids, results, w, 1)
        result_datasets == ResultDatasets(ids, results)
        csvOf == [d \in DOMAIN result_datasets |->
                    w[<<"reply_csv", CHOOSE i \in 1..Len(results) : ids[i] = d>>]]
    IN /\ inputs # {}
       /\ \A i, j \in 1..Len(results) : ids[i] = ids[j] => i = j
       /\ Len(st0.cache[s].history) + 2 <= MaxHistory
       /\ faults + SumCost(w) <= MaxFaults
       /\ faults' = faults + SumCost(w)
       /\ SetStore(AddHistoryCall(st2, s, AnalysisItem(result_datasets), csvOf,
                                  w[<<"reply", 0>>]))
       /\ issued' = issued \cup {ids[i] : i \in 1..Len(results)}
       \* add_history has put the metadata in place of each entry of
       \* result_datasets, the dict the body returns (lines 166, 175, 183).
       /\ ret' = Analyzed(s, selected, "200", TRUE, "data_analysis", TRUE, "analysis",
                         ExternalizeItem(AnalysisItem(result_datasets), csvOf).datasets,
                         [d \in DOMAIN result_datasets |-> result_datasets[d].data])
       /\ UNCHANGED <<sessions_meta, meta_file, datasets_cache, deleted,
                   concVars, intentVars, sandboxVars, configVars>>

\* POST /api/analyze with any other agent_type (lines 188-272): the user
\* message, then the assistant message.
AnalyzeDataReply(s, selected, agent_type, w) ==
    LET st0 == GetDatasetsCall(Store, s)
        inputs == Inputs(st0.cache[s].datasets, st0.dsfiles, selected)
        st1 == AddHistoryCall(st0, s, UserItem, EmptyMap, w[<<"user", 0>>])
    IN /\ inputs # {}
       /\ Len(st0.cache[s].history) + 2 <= MaxHistory
       /\ faults + SumCost(w) <= MaxFaults
       /\ faults' = faults + SumCost(w)
       /\ SetStore(AddHistoryCall(st1, s, AssistantItem(ResultType(agent_type)),
                                  EmptyMap, w[<<"reply", 0>>]))
       /\ ret' = Analyzed(s, selected, "200", TRUE,
                         IF agent_type \in AGENT_TYPES THEN agent_type ELSE "none",
                         agent_type \in AGENT_TYPES, ResultType(agent_type), EmptyMap,
                         EmptyMap)
       /\ UNCHANGED <<sessions_meta, meta_file, datasets_cache, issued, deleted,
                   concVars, intentVars, sandboxVars, configVars>>

\* GET /api/dataset/{session_id}/{dataset_id}?full=true: the metadata entry is
\* copied (dict(dataset_meta), line 349) before the payload is put into it.
GetDatasetFull(s, d) ==
    LET st0 == GetDatasetsCall(Store, s)
        r == GetDatasetDataResult(datasets_cache, st0.cache, st0.files,
                                  st0.dsfiles, s, d)
    IN /\ SetStore(st0)
       /\ IF d \in DOMAIN st0.cache[s].datasets
          THEN datasets_cache' = r[2] /\ ret' = Returned(s, d, r[1])
          ELSE datasets_cache' = datasets_cache /\ ret' = NoRet
       /\ UNCHANGED <<sessions_meta, meta_file, issued, deleted, faults,
                   concVars, intentVars, sandboxVars, configVars>>

SelectedArgs == SUBSET UuidDatasetIds

\* analyze_data, line 122: some selected dataset loaded.
HasInputs(s, selected) ==
    Inputs(GetDatasetsCall(Store, s).cache[s].datasets, dataset_files, selected) # {}

\* The outcomes of a set of writes of which at most `budget` go wrong.
FaultyOutcomes(writes, budget) ==
    UNION {[failed -> WriteOutcomes \ {"ok"}] :
              failed \in {F \in SUBSET writes : Cardinality(F) <= budget}}

WithFaults(writes, f) == [x \in writes |-> IF x \in DOMAIN f THEN f[x] ELSE "ok"]

NextApp ==
    \/ Restart
    \/ CreateSession(DefaultName, StartTime, "ok")
    \/ \E s \in SessionIds : DeleteSession(s, {})
    \/ \E s \in SessionIds : GetDatasets(s)
    \/ \E s \in SessionIds, path \in Paths, save \in WriteOutcomes :
          UploadFile(s, path, save)
    \* UserIntentAgent.execute is reached, and may raise, only with inputs.
    \/ \E s \in SessionIds, selected \in SelectedArgs :
          \E intentRaises \in {HasInputs(s, selected)} :
             AnalyzeDataRejected(s, selected, intentRaises)
    \/ \E s \in SessionIds, selected \in SelectedArgs :
          /\ HasInputs(s, selected)
          /\ \E agent_type \in AGENT_TYPES, save \in WriteOutcomes :
                AnalyzeDataAgentRaises(s, selected, agent_type, save)
    \/ \E s \in SessionIds, selected \in SelectedArgs :
          /\ HasInputs(s, selected)
          /\ \E results \in ResultSeqs :
              \E ids \in [1..Len(results) -> UuidDatasetIds \ issued] :
                \E f \in FaultyOutcomes(ReplyWrites \cup ResultWrites(Len(results)),
                                        MaxFaults - faults) :
                   AnalyzeDataAnalysis(s, selected, results, ids,
                      WithFaults(ReplyWrites \cup ResultWrites(Len(results)), f))
    \/ \E s \in SessionIds, selected \in SelectedArgs :
          /\ HasInputs(s, selected)
          /\ \E agent_type \in AgentTypeValues \ {"data_analysis"} :
              \E f \in FaultyOutcomes(ReplyWrites, MaxFaults - faults) :
                 AnalyzeDataReply(s, selected, agent_type, WithFaults(ReplyWrites, f))
    \/ \E s \in SessionIds, d \in UuidDatasetIds : GetDatasetFull(s, d)

SpecApp == Init /\ [][NextApp]_vars

\* The calls that reach a session's history: add_history itself and the
\* POST /api/analyze requests that call it, next to create, delete, upload
\* and a restart of the process.
NextHistory ==
    \/ Restart
    \/ CreateSession(DefaultName, StartTime, "ok")
    \/ \E s \in SessionIds : DeleteSession(s, {})
    \/ \E s \in SessionIds, path \in Paths : UploadFile(s, path, "ok")
    \/ \E s \in SessionIds, item \in HistoryArgs \ {AssistantItem("analysis_plan")},
             save \in WriteOutcomes :
          \E csvOf \in [InlineIds(item) -> CsvOutcomes] : AddHistory(s, item, csvOf, save)
    \/ \E s \in SessionIds, selected \in {UuidDatasetIds} :
          /\ HasInputs(s, selected)
          /\ AnalyzeDataAgentRaises(s, selected, "data_visualization", "ok")
    \/ \E s \in SessionIds, selected \in {UuidDatasetIds} :
          /\ HasInputs(s, selected)
          /\ \E results \in ResultSeqs :
              \E ids \in [1..Len(results) -> UuidDatasetIds \ issued] :
                \E f \in FaultyOutcomes(ReplyWrites, MaxFaults - faults) :
                   AnalyzeDataAnalysis(s, selected, results, ids,
                      WithFaults(ReplyWrites \cup ResultWrites(Len(results)), f))
    \/ \E s \in SessionIds, selected \in {UuidDatasetIds} :
          /\ HasInputs(s, selected)
          /\ \E agent_type \in AgentTypeValues \ {"data_analysis"} :
              \E f \in FaultyOutcomes(ReplyWrites, MaxFaults - faults) :
                 AnalyzeDataReply(s, selected, agent_type, WithFaults(ReplyWrites, f))

SpecHistory == Init /\ [][NextHistory]_vars

\* ------------------------------- two add_dataset calls, statement by statement
\* Both calls are on this session.
ConcSession == "s1"

\* The dataset id each call passes.
ThreadDataset(t) == IF t = "A" THEN "g1" ELSE "g2"

\* The dict _load_session_data builds for a call that misses the cache.
OwnObject(t) == IF t = "A" THEN "PA" ELSE "PB"

\* self.sessions_cache by value: the body of the object it refers to.
CacheView(h, ref) ==
    [s \in SessionIds |->
        IF s = ConcSession /\ ref # NoObject THEN h[ref] ELSE NotCached]

\* Session bodies on disk when the two calls start.
ConcDatasetArgs == {UploadedDataset("u1"), GeneratedDataset("t1")}

InitConc ==
    \E body \in InitBodies, cached \in BOOLEAN, args \in [Threads -> ConcDatasetArgs] :
        /\ sessions_meta = <<SessionMeta(ConcSession, DefaultName, StartTime)>>
        /\ meta_file = sessions_meta
        /\ session_files = [s \in SessionIds |-> IF s = ConcSession THEN body ELSE NoBodyFile]
        /\ dataset_files = [d \in DatasetIds |-> NoFile]
        /\ heap = [o \in ObjIds |-> IF o = "O" /\ cached THEN body ELSE NotCached]
        /\ cache_ref = IF cached THEN "O" ELSE NoObject
        /\ sessions_cache = CacheView(heap, cache_ref)
        /\ datasets_cache = [k \in SessionIds \X DatasetIds |-> None]
        /\ ret = NoRet
        /\ issued = {ConcSession} \cup {ThreadDataset(t) : t \in Threads}
        /\ deleted = {}
        /\ faults = 0
        /\ pc = [t \in Threads |-> "start"]
        /\ session_ref = [t \in Threads |-> NoObject]
        /\ adding = args
        /\ race = RaceIdle
        /\ ctor = CtorIdle
        /\ IntentIdle
        /\ SandboxIdle
        /\ ConfigIdle

concRest == <<sessions_meta, meta_file, datasets_cache, ret, issued, deleted,
              faults, adding, race, ctor, intentVars, sandboxVars, configVars>>

\* get_session, lines 137-138: the cached object on a hit.
CheckCache(t) ==
    /\ pc[t] = "start"
    /\ IF cache_ref # NoObject
       THEN /\ session_ref' = [session_ref EXCEPT ![t] = cache_ref]
            /\ pc' = [pc EXCEPT ![t] = "insert"]
       ELSE /\ session_ref' = session_ref
            /\ pc' = [pc EXCEPT ![t] = "load"]
    /\ UNCHANGED <<heap, cache_ref, sessions_cache, session_files, dataset_files, concRest>>

\* get_session, line 141: _load_session_data builds a new dict from the file.
LoadSessionFile(t) ==
    /\ pc[t] = "load"
    /\ heap' = [heap EXCEPT ![OwnObject(t)] = LoadSessionData(session_files, ConcSession)]
    /\ session_ref' = [session_ref EXCEPT ![t] = OwnObject(t)]
    /\ pc' = [pc EXCEPT ![t] = "cache"]
    /\ sessions_cache' = CacheView(heap', cache_ref)
    /\ UNCHANGED <<cache_ref, session_files, dataset_files, concRest>>

\* get_session, line 142: the loaded dict becomes the cached one.
CacheLoaded(t) ==
    /\ pc[t] = "cache"
    /\ cache_ref' = session_ref[t]
    /\ pc' = [pc EXCEPT ![t] = "insert"]
    /\ sessions_cache' = CacheView(heap, cache_ref')
    /\ UNCHANGED <<heap, session_ref, session_files, dataset_files, concRest>>

\* add_dataset, lines 257-275: the bulk file, then the entry put into the dict
\* the call holds.
InsertMetadata(t) ==
    LET r == ApplyAddDataset(heap[session_ref[t]], dataset_files,
                             ThreadDataset(t), adding[t], "ok")
    IN /\ pc[t] = "insert"
       /\ heap' = [heap EXCEPT ![session_ref[t]] = r[1]]
       /\ dataset_files' = r[2]
       /\ pc' = [pc EXCEPT ![t] = "store"]
       /\ sessions_cache' = CacheView(heap', cache_ref)
       /\ UNCHANGED <<cache_ref, session_ref, session_files, concRest>>

\* add_dataset, line 276.
StoreCache(t) ==
    /\ pc[t] = "store"
    /\ cache_ref' = session_ref[t]
    /\ pc' = [pc EXCEPT ![t] = "save"]
    /\ sessions_cache' = CacheView(heap, cache_ref')
    /\ UNCHANGED <<heap, session_ref, session_files, dataset_files, concRest>>

\* add_dataset, lines 277-284: the body write of the dict the call holds.
WriteBody(t) ==
    /\ pc[t] = "save"
    /\ session_files' = SaveSessionData(session_files, ConcSession,
                                        heap[session_ref[t]], "ok")
    /\ pc' = [pc EXCEPT ![t] = "done"]
    /\ UNCHANGED <<heap, cache_ref, session_ref, sessions_cache, dataset_files, concRest>>

NextConc ==
    \E t \in Threads :
        \/ CheckCache(t)
        \/ LoadSessionFile(t)
        \/ CacheLoaded(t)
        \/ InsertMetadata(t)
        \/ StoreCache(t)
        \/ WriteBody(t)

SpecConc == InitConc /\ [][NextConc]_vars

\* ------------------------------------------------ UserIntentAgent.execute
\* len(info["keywords"]) of each agent type.
KeywordCount ==
    [data_analysis |-> 11, data_visualization |-> 10,
     data_analysis_plan |-> 10, data_analysis_conclusion |-> 11]

\* A prompt, as the number of keywords of each agent type it contains.
Prompts == [AGENT_TYPES -> 0..MaxHits]

\* JSON values as json.loads builds them.
JObj(fields) == [t |-> "object", fields |-> fields]
JNum(n, d) == [t |-> "number", n |-> n, d |-> d]
JStr(str) == [t |-> "string", s |-> str]
JList(items) == [t |-> "array", items |-> items]
JNull == [t |-> "null"]
JTrue == [t |-> "true"]
JFalse == [t |-> "false"]
Absent == [t |-> "absent"]

\* The strings of the model that have "agent_type" as a substring.
StringsWithAgentType == {"agent_type"}

JsonObjects ==
    {JObj(("agent_type" :> JStr(a)) @@ ("confidence" :> JNum(9, 10))) : a \in AGENT_TYPES}
    \cup {JObj(("agent_type" :> JStr("chart")) @@ ("confidence" :> JNum(3, 1))),
          JObj("agent_type" :> JStr("data_analysis")),
          JObj("intent" :> JStr("data_analysis")),
          JObj(EmptyMap)}

JsonValues ==
    JsonObjects
    \cup {JNum(0, 1), JNum(5, 1), JNull, JTrue, JFalse,
          JStr(""), JStr("hello"), JStr("agent_type"),
          JList(<<>>), JList(<<JStr("x")>>), JList(<<JStr("agent_type")>>)}

\* What json.loads makes of a piece of text, or that the pattern found none.
ParseFail == [t |-> "invalid"]
NoMatch == [t |-> "nomatch"]

\* A reply text, as what json.loads makes of the whole text, of the first
\* fenced block and of the first brace-enclosed span.
ReplyTexts ==
    {[whole |-> v, fenced |-> NoMatch, brace |-> NoMatch] : v \in JsonValues}
    \cup {[whole |-> ParseFail, fenced |-> v, brace |-> NoMatch] : v \in JsonValues}
    \cup {[whole |-> ParseFail, fenced |-> f, brace |-> b] :
             f \in {NoMatch, ParseFail}, b \in {NoMatch, ParseFail} \cup JsonObjects}

RequestError == [k |-> "request_error"]
Reply(text) == [k |-> "reply", text |-> text]
LlmOutcomes == {RequestError} \cup {Reply(text) : text \in ReplyTexts}

\* _extract_json_from_response
ExtractJson(text) ==
    IF text.whole # ParseFail THEN text.whole
    ELSE IF text.fenced \notin {NoMatch, ParseFail} THEN text.fenced
    ELSE IF text.brace \notin {NoMatch, ParseFail} THEN text.brace
    ELSE JObj(EmptyMap)

\* Python truth value of a JSON value.
Truthy(v) ==
    CASE v.t = "object" -> DOMAIN v.fields # {}
      [] v.t = "number" -> v.n # 0
      [] v.t = "string" -> v.s # ""
      [] v.t = "array" -> v.items # <<>>
      [] v.t = "true" -> TRUE
      [] OTHER -> FALSE

\* 'agent_type' in v: "yes", "no", or the TypeError of a value with no `in`.
HasAgentType(v) ==
    CASE v.t = "object" -> IF "agent_type" \in DOMAIN v.fields THEN "yes" ELSE "no"
      [] v.t = "string" -> IF v.s \in StringsWithAgentType THEN "yes" ELSE "no"
      [] v.t = "array" ->
            IF \E i \in 1..Len(v.items) : v.items[i] = JStr("agent_type")
            THEN "yes" ELSE "no"
      [] OTHER -> "TypeError"

Raises(exc) == [k |-> "raise", exc |-> exc]
Returns(agent_type, confidence, explanation) ==
    [k |-> "return", agent_type |-> agent_type, confidence |-> confidence,
     explanation |-> explanation]

\* a/b < c/d
FracLess(x, y) == x[1] * y[2] < y[1] * x[2]

\* score / len(info["keywords"]) of the i-th agent type, as <<score, len>>.
Score(prompt, i) == <<prompt[AgentTypeOrder[i]], KeywordCount[AgentTypeOrder[i]]>>

\* The scorer choosing by the number of hits, not divided by the set size.
RuleBasedRawHits(prompt) ==
    LET best == CHOOSE i \in 1..Len(AgentTypeOrder) :
                    /\ \A j \in 1..Len(AgentTypeOrder) :
                          prompt[AgentTypeOrder[j]] <= prompt[AgentTypeOrder[i]]
                    /\ \A j \in 1..(i - 1) :
                          prompt[AgentTypeOrder[j]] < prompt[AgentTypeOrder[i]]
    IN IF \A a \in AGENT_TYPES : prompt[a] = 0
       THEN Returns(JStr("data_analysis"), JNum(1, 2), JStr("no_signal"))
       ELSE Returns(JStr(AgentTypeOrder[best]),
                    JNum(Score(prompt, best)[1], Score(prompt, best)[2]),
                    JStr("keyword_match"))

\* The scorer keeping the last of several greatest scores.
RuleBasedLastMax(prompt) ==
    LET best == CHOOSE i \in 1..Len(AgentTypeOrder) :
                    /\ \A j \in 1..Len(AgentTypeOrder) :
                          ~FracLess(Score(prompt, i), Score(prompt, j))
                    /\ \A j \in (i + 1)..Len(AgentTypeOrder) :
                          FracLess(Score(prompt, j), Score(prompt, i))
    IN IF \A a \in AGENT_TYPES : prompt[a] = 0
       THEN Returns(JStr("data_analysis"), JNum(1, 2), JStr("no_signal"))
       ELSE Returns(JStr(AgentTypeOrder[best]),
                    JNum(Score(prompt, best)[1], Score(prompt, best)[2]),
                    JStr("keyword_match"))

\* _rule_based_intent_recognition: max(scores, key=scores.get) keeps the first
\* of the greatest scores in the order of the dict.
RuleBased(prompt) ==
    LET best == CHOOSE i \in 1..Len(AgentTypeOrder) :
                    /\ \A j \in 1..Len(AgentTypeOrder) :
                          ~FracLess(Score(prompt, i), Score(prompt, j))
                    /\ \A j \in 1..(i - 1) :
                          FracLess(Score(prompt, j), Score(prompt, i))
    IN IF \A a \in AGENT_TYPES : prompt[a] = 0
       THEN Returns(JStr("data_analysis"), JNum(1, 2), JStr("no_signal"))
       ELSE Returns(JStr(AgentTypeOrder[best]),
                    JNum(Score(prompt, best)[1], Score(prompt, best)[2]),
                    JStr("keyword_match"))

\* execute, lines 84-93, on the value extracted from the reply.
ExecuteOnResult(prompt, result) ==
    IF ~Truthy(result) THEN RuleBased(prompt)
    ELSE CASE HasAgentType(result) = "TypeError" -> Raises("TypeError")
           [] HasAgentType(result) = "no" -> RuleBased(prompt)
           [] OTHER ->
                IF result.t = "object"
                THEN Returns(result.fields["agent_type"],
                             IF "confidence" \in DOMAIN result.fields
                             THEN result.fields["confidence"] ELSE Absent,
                             IF "explanation" \in DOMAIN result.fields
                             THEN result.fields["explanation"] ELSE Absent)
                ELSE Raises("TypeError")

\* execute
Execute(prompt, outcome) ==
    IF outcome = RequestError THEN Raises("RequestException")
    ELSE ExecuteOnResult(prompt, ExtractJson(outcome.text))

\* analyze_data, line 126: a new UserIntentAgent for the request.
NewIntentAgent ==
    /\ intent_result.k # "idle"
    /\ user_prompt' = [a \in AGENT_TYPES |-> 0]
    /\ llm' = [k |-> "none"]
    /\ intent_result' = [k |-> "idle"]
    /\ UNCHANGED <<storeVars, concVars, sandboxVars, configVars>>

\* analyze_data, line 127: the one execute call on that agent.
ExecuteIntent(prompt, outcome) ==
    /\ intent_result.k = "idle"
    /\ user_prompt' = prompt
    /\ llm' = outcome
    /\ intent_result' = Execute(prompt, outcome)
    /\ UNCHANGED <<storeVars, concVars, sandboxVars, configVars>>

NextIntent ==
    \/ NewIntentAgent
    \/ \E prompt \in Prompts, outcome \in LlmOutcomes : ExecuteIntent(prompt, outcome)

SpecIntent == Init /\ [][NextIntent]_vars

\* The result names one of the AGENT_TYPES and carries a number in [0, 1].
KnownCategory(r) == r.agent_type \in {JStr(a) : a \in AGENT_TYPES}

ConfidenceInRange(r) ==
    /\ r.confidence.t = "number"
    /\ 0 <= r.confidence.n
    /\ r.confidence.n <= r.confidence.d

\* ------------------------------------------------ DataAnalysisAgent.execute
\* A model reply, as the two patterns of _extract_code_from_response see it:
\* the lengths of the fenced blocks' contents and of the matches of the
\* function pattern, in the order findall returns them. A fenced block may
\* be empty.
FencedLens == {0, 50, 120}
DefLens == {50, 120}

CodeReplies ==
    [fenced : UNION {[1..n -> FencedLens] : n \in 0..MaxBlocks},
     defs : UNION {[1..n -> DefLens] : n \in 0..MaxBlocks}]

\* max(matches, key=len): the first of the longest.
Longest(lens) ==
    CHOOSE i \in 1..Len(lens) :
        /\ \A j \in 1..Len(lens) : lens[j] <= lens[i]
        /\ \A j \in 1..(i - 1) : lens[j] < lens[i]

\* The extractor returning the first match of a pattern, not the longest.
ExtractFirstMatch(response_text) ==
    IF response_text.fenced # <<>> THEN [part |-> "fenced", i |-> 1]
    ELSE IF response_text.defs # <<>> THEN [part |-> "def", i |-> 1]
    ELSE [part |-> "raw", i |-> 0]

\* _extract_code_from_response (lines 161-187).
ExtractCodeFromResponse(response_text) ==
    IF response_text.fenced # <<>>
    THEN [part |-> "fenced", i |-> Longest(response_text.fenced)]
    ELSE IF response_text.defs # <<>>
    THEN [part |-> "def", i |-> Longest(response_text.defs)]
    ELSE [part |-> "raw", i |-> 0]

\* Exceptions the generated code raises while it is loaded or run.
CodeExceptions == {"SyntaxError", "TypeError", "ValueError"}

\* What analyze_data returns: a DataFrame over a table, or something else.
DataFrames == {<<"df", t>> : t \in Tables}
NotTable == <<"other", "-">>
IsDataFrame(value) == value[1] = "df"
\* value.to_dict(orient='list')
ToDict(value) == value[2]

LabelOrder == <<"k1", "k2", "k3">>
Labels == {LabelOrder[i] : i \in 1..MaxLabels}

\* The items of a returned dict, in insertion order.
DictItems ==
    UNION {{items \in [1..n -> Labels \X (DataFrames \cup {NotTable})] :
               \A i, j \in 1..n : items[i][1] = items[j][1] => i = j} :
           n \in 0..MaxLabels}

ReturnValues ==
    {[shape |-> sh, items |-> <<>>] : sh \in {"list", "none", "table"}}
    \cup {[shape |-> "dict", items |-> items] : items \in DictItems}

\* One run's circumstances: whether chat_completion raises, whether writing
\* the code to the temporary file fails, what loading the module does,
\* whether the module has a callable analyze_data, and what calling it does.
\* A later part is "-" when an earlier one ends the run.
Behaviours ==
    {[NoBehaviour EXCEPT !.llm = "raises"]}
    \cup {[NoBehaviour EXCEPT !.llm = "ok", !.write = "fail"]}
    \cup {[NoBehaviour EXCEPT !.llm = "ok", !.write = "ok", !.load = e] :
             e \in CodeExceptions}
    \cup {[NoBehaviour EXCEPT !.llm = "ok", !.write = "ok", !.load = "ok",
                              !.entry = x] : x \in {"missing", "not_callable"}}
    \cup {[NoBehaviour EXCEPT !.llm = "ok", !.write = "ok", !.load = "ok",
                              !.entry = "callable", !.run = e] :
             e \in CodeExceptions}
    \cup {[NoBehaviour EXCEPT !.llm = "ok", !.write = "ok", !.load = "ok",
                              !.entry = "callable", !.run = "returns",
                              !.value = v] : v \in ReturnValues}

\* The names NamedTemporaryFile gives its files, in the order it gives them:
\* a name is never that of a file on disk.
TempOrder == <<"tmp1", "tmp2">>
TempNames == {TempOrder[i] : i \in 1..Len(TempOrder)}
NewTempName(dir) ==
    TempOrder[CHOOSE i \in 1..Len(TempOrder) :
                 /\ TempOrder[i] \notin dir
                 /\ \A j \in 1..(i - 1) : TempOrder[j] \in dir]

\* How execute ends: an exception (its class, what its message is, the key it
\* names) or the returned final_result.
Raised(exc, msg, label) ==
    [k |-> "raise", exc |-> exc, msg |-> msg, label |-> label, value |-> EmptyMap]
FinalResult(final_result) ==
    [k |-> "return", exc |-> "-", msg |-> "-", label |-> "-", value |-> final_result]

\* The loop of lines 93-97 leaving out a value that is not a DataFrame.
RECURSIVE CheckItemsSkipping(_, _, _)
CheckItemsSkipping(items, i, final_result) ==
    IF i > Len(items) THEN FinalResult(final_result)
    ELSE IF ~IsDataFrame(items[i][2])
    THEN CheckItemsSkipping(items, i + 1, final_result)
    ELSE CheckItemsSkipping(items, i + 1,
                            final_result @@ (items[i][1] :> ToDict(items[i][2])))

\* Lines 92-98: the first value that is not a DataFrame raises, naming its key.
RECURSIVE CheckItems(_, _, _)
CheckItems(items, i, final_result) ==
    IF i > Len(items) THEN FinalResult(final_result)
    ELSE IF ~IsDataFrame(items[i][2])
    THEN Raised("TypeError", "not_dataframe", items[i][1])
    ELSE CheckItems(items, i + 1,
                    final_result @@ (items[i][1] :> ToDict(items[i][2])))

\* The try block, lines 80-98. Nothing in it catches: what the generated code
\* raises leaves execute as it is, a missing analyze_data is the
\* AttributeError of `module.analyze_data`, one that is not callable the
\* TypeError of the call.
RunModule(b) ==
    IF b.load # "ok" THEN Raised(b.load, "from_code", "-")
    ELSE IF b.entry = "missing" THEN Raised("AttributeError", "no_attribute", "-")
    ELSE IF b.entry = "not_callable" THEN Raised("TypeError", "not_callable", "-")
    ELSE IF b.run # "returns" THEN Raised(b.run, "from_code", "-")
    ELSE IF b.value.shape # "dict" THEN Raised("TypeError", "not_dict", "-")
    ELSE CheckItems(b.value.items, 1, EmptyMap)

\* analyze_data (main.py), line 149: a new DataAnalysisAgent for the request.
NewDataAnalysisAgent ==
    /\ analysis_result.k # "idle"
    /\ raw_content' = NoReply
    /\ generated_code' = NoCode
    /\ behaviour' = NoBehaviour
    /\ analysis_result' = NotRun
    /\ temp_module_path' = NoPath
    /\ UNCHANGED <<temp_dir, storeVars, concVars, intentVars, configVars>>

\* execute (lines 21-101) on that agent. The temporary file is created and
\* written before the try block (lines 76-78): a failure there leaves it on
\* disk; past it, the finally clause (lines 99-101) removes it.
ExecuteAnalysis ==
    /\ analysis_result.k = "idle"
    /\ TempNames \ temp_dir # {}
    /\ \E reply \in CodeReplies, b \in Behaviours :
          /\ behaviour' = b
          /\ IF b.llm = "raises"
             THEN /\ analysis_result' = Raised("RequestException", "request", "-")
                  /\ UNCHANGED <<raw_content, generated_code, temp_module_path,
                                 temp_dir>>
             ELSE /\ raw_content' = reply
                  /\ generated_code' = ExtractCodeFromResponse(reply)
                  /\ temp_module_path' = NewTempName(temp_dir)
                  /\ IF b.write = "fail"
                     THEN /\ temp_dir' = temp_dir \cup {NewTempName(temp_dir)}
                          /\ analysis_result' = Raised("OSError", "write", "-")
                     ELSE /\ temp_dir' = temp_dir
                          /\ analysis_result' = RunModule(b)
    /\ UNCHANGED <<storeVars, concVars, intentVars, configVars>>

NextSandbox ==
    \/ NewDataAnalysisAgent
    \/ ExecuteAnalysis

SpecSandbox == Init /\ [][NextSandbox]_vars

\* -------------- create_session next to delete_session, statement by statement
\* A create_session(name) call and a delete_session(OldSession) call start
\* in two threads; create_session has drawn its id and built session_meta
\* (lines 154-162).
BeginCalls(name, now) ==
    /\ race = RaceIdle
    /\ OldSession \in MetaIds(sessions_meta)
    /\ \E id \in Uuid4(issued) :
          /\ race' = [RaceIdle EXCEPT !.create = "l165", !.delete = "l208",
                                      !.session_meta = SessionMeta(id, name, now)]
          /\ issued' = issued \cup {id}
    /\ ret' = NoRet
    /\ UNCHANGED <<sessions_meta, meta_file, session_files, dataset_files,
                   sessions_cache, datasets_cache, deleted, faults,
                   heap, cache_ref, pc, session_ref, adding, ctor,
                   intentVars, sandboxVars, configVars>>

RaceStep(r) ==
    /\ race' = r
    /\ UNCHANGED <<datasets_cache, issued, faults, heap, cache_ref, pc, session_ref,
                   adding, ctor, intentVars, sandboxVars, configVars>>

\* create_session, line 165: append to the list self.sessions_meta holds.
CreateAppend ==
    /\ race.create = "l165"
    /\ sessions_meta' = Append(sessions_meta, race.session_meta)
    /\ RaceStep([race EXCEPT !.create = "l166"])
    /\ ret' = NoRet
    /\ UNCHANGED <<meta_file, session_files, dataset_files, sessions_cache, deleted>>

\* create_session, line 166: _save_sessions_meta writes what self.sessions_meta
\* holds now.
CreateSaveMeta ==
    /\ race.create = "l166"
    /\ meta_file' = sessions_meta
    /\ RaceStep([race EXCEPT !.create = "l169"])
    /\ ret' = NoRet
    /\ UNCHANGED <<sessions_meta, session_files, dataset_files, sessions_cache, deleted>>

\* create_session, lines 169-176: the body file, the cache entry, the return.
CreateSaveBody ==
    /\ race.create = "l169"
    /\ session_files' = SaveSessionData(session_files, race.session_meta.id, NewBody, "ok")
    /\ sessions_cache' = [sessions_cache EXCEPT ![race.session_meta.id] = NewBody]
    /\ RaceStep([race EXCEPT !.create = "done"])
    /\ ret' = Created(race.session_meta)
    /\ UNCHANGED <<sessions_meta, meta_file, dataset_files, deleted>>

\* delete_session, lines 208-211, the right-hand side: the comprehension
\* builds a new list from the list self.sessions_meta holds now.
DeleteFilter ==
    /\ race.delete = "l208"
    /\ RaceStep([race EXCEPT !.delete = "l208s",
                             !.filtered = SelectSeq2(sessions_meta, OldSession)])
    /\ ret' = NoRet
    /\ UNCHANGED <<sessions_meta, meta_file, session_files, dataset_files,
                   sessions_cache, deleted>>

\* delete_session, line 208, the assignment: self.sessions_meta["sessions"]
\* is made to refer to the new list.
DeleteAssign ==
    /\ race.delete = "l208s"
    /\ sessions_meta' = race.filtered
    /\ RaceStep([race EXCEPT !.delete = "l212"])
    /\ ret' = NoRet
    /\ UNCHANGED <<meta_file, session_files, dataset_files, sessions_cache, deleted>>

\* delete_session, line 212.
DeleteSaveMeta ==
    /\ race.delete = "l212"
    /\ meta_file' = sessions_meta
    /\ RaceStep([race EXCEPT !.delete = "l215"])
    /\ ret' = NoRet
    /\ UNCHANGED <<sessions_meta, session_files, dataset_files, sessions_cache, deleted>>

\* delete_session, lines 215-236: the files, the cache entry, the return.
DeleteFiles ==
    /\ race.delete = "l215"
    /\ session_files' = DeleteBodyFile(session_files, OldSession, {})
    /\ dataset_files' = DeleteSessionFiles(sessions_cache, session_files,
                                          dataset_files, OldSession, {})
    /\ sessions_cache' = [sessions_cache EXCEPT ![OldSession] = NotCached]
    /\ RaceStep([race EXCEPT !.delete = "done"])
    /\ ret' = Deleted(OldSession, TRUE)
    /\ UNCHANGED <<sessions_meta, meta_file, deleted>>

NextRace ==
    \/ \E name \in Names, now \in Times : BeginCalls(name, now)
    \/ CreateAppend
    \/ CreateSaveMeta
    \/ CreateSaveBody
    \/ DeleteFilter
    \/ DeleteAssign
    \/ DeleteSaveMeta
    \/ DeleteFiles

SpecRace == InitIndex /\ [][NextRace]_vars

\* ---------------------------------- ConfigService() from several threads
CtorStep(c) ==
    /\ ctor' = c
    /\ UNCHANGED <<storeVars, heap, cache_ref, pc, session_ref, adding, race,
                   intentVars, sandboxVars, configVars>>

\* __new__ (lines 12-17), under cls._lock: the first call makes the instance
\* and sets its _initialized to False; every call returns cls._instance.
New(t) ==
    /\ ctor.at[t] = "start"
    /\ CtorStep([ctor EXCEPT !.instance = "I",
                             !.initialized = IF ctor.instance = NoInstance
                                             THEN FALSE ELSE @,
                             !.self[t] = "I",
                             !.at[t] = "l20"])

\* __init__, lines 20-21: return if self._initialized.
CheckInitialized(t) ==
    /\ ctor.at[t] = "l20"
    /\ CtorStep([ctor EXCEPT !.at[t] = IF ctor.initialized THEN "done" ELSE "l36"])

\* __init__, lines 23-36: the paths, the empty dicts, _load_all_configs().
LoadAllConfigs(t) ==
    /\ ctor.at[t] = "l36"
    /\ CtorStep([ctor EXCEPT !.loads = @ + 1, !.at[t] = "l39"])

\* __init__, lines 39-40: the monitor thread is made and started.
StartMonitor(t) ==
    /\ ctor.at[t] = "l39"
    /\ CtorStep([ctor EXCEPT !.monitors = @ + 1, !.at[t] = "l42"])

\* __init__, line 42.
SetInitialized(t) ==
    /\ ctor.at[t] = "l42"
    /\ CtorStep([ctor EXCEPT !.initialized = TRUE, !.at[t] = "done"])

NextCtor ==
    \E t \in CtorThreads :
        \/ New(t)
        \/ CheckInitialized(t)
        \/ LoadAllConfigs(t)
        \/ StartMonitor(t)
        \/ SetInitialized(t)

SpecCtor == Init /\ [][NextCtor]_vars

\* ------------------------------ _extract_code_from_response on reply text
\* A reply without a fenced block, as the function pattern of line 179 sees
\* it: "def" is the text `def analyze_data(dfs)`, "return" and "pass" are the
\* two keywords the pattern ends on, "value" is what stands after a return
\* keyword on its line, "stmt" is any other text.
Tokens == {"def", "stmt", "return", "value", "pass"}
TokenLen(t) ==
    CASE t = "def" -> 21 [] t = "stmt" -> 10 [] t = "return" -> 6
      [] t = "value" -> 8 [] t = "pass" -> 4

ResponseTexts == UNION {[1..n -> Tokens] : n \in 1..MaxTokens}

RECURSIVE TextLen(_)
TextLen(text) ==
    IF text = <<>> THEN 0 ELSE TokenLen(Head(text)) + TextLen(Tail(text))

\* `[\s\S]*?(?:return|pass)`: the lazy quantifier stops at the first of the
\* two keywords after position i; 0 when there is none.
FirstKeyword(text, i) ==
    IF \E k \in (i + 1)..Len(text) : text[k] \in {"return", "pass"}
    THEN CHOOSE k \in (i + 1)..Len(text) :
             /\ text[k] \in {"return", "pass"}
             /\ \A j \in (i + 1)..(k - 1) : text[j] \notin {"return", "pass"}
    ELSE 0

\* function_pattern.findall(response_text), line 180: the matches from
\* position i on, left to right, none overlapping another.
RECURSIVE FunctionMatches(_, _)
FunctionMatches(text, i) ==
    IF i > Len(text) THEN <<>>
    ELSE IF text[i] # "def" THEN FunctionMatches(text, i + 1)
    ELSE IF FirstKeyword(text, i) = 0 THEN <<>>
    ELSE <<SubSeq(text, i, FirstKeyword(text, i))>>
         \o FunctionMatches(text, FirstKeyword(text, i) + 1)

\* What the two patterns find in such a text (lines 173-180).
ReplyOf(text) ==
    [fenced |-> <<>>,
     defs |-> [m \in 1..Len(FunctionMatches(text, 1)) |->
                  TextLen(FunctionMatches(text, 1)[m])]]

\* The text _extract_code_from_response returns for it (lines 182-187).
ExtractedText(text) ==
    IF ExtractCodeFromResponse(ReplyOf(text)).part = "def"
    THEN FunctionMatches(text, 1)[ExtractCodeFromResponse(ReplyOf(text)).i]
    ELSE text

\* execute, lines 70-73, of a new agent on a reply without a fenced block.
ExtractFromReply(text) ==
    /\ raw_content = NoReply
    /\ raw_content' = [fenced |-> <<>>, defs |-> ReplyOf(text).defs, text |-> text]
    /\ generated_code' =
          [part |-> ExtractCodeFromResponse(ReplyOf(text)).part,
           i |-> ExtractCodeFromResponse(ReplyOf(text)).i,
           text |-> ExtractedText(text)]
    /\ UNCHANGED <<behaviour, analysis_result, temp_module_path, temp_dir,
                   storeVars, concVars, intentVars, configVars>>

NextExtract == \E text \in ResponseTexts : ExtractFromReply(text)

SpecExtract == Init /\ [][NextExtract]_vars

\* A text that is one definition of analyze_data(dfs) and nothing else: it
\* starts with the header, a value follows a return keyword only, and its
\* last line is a return statement or a pass.
OneDefinition(text) ==
    /\ text[1] = "def"
    /\ \A k \in 2..Len(text) : text[k] # "def"
    /\ \A k \in 2..Len(text) : text[k] = "value" => text[k - 1] = "return"
    /\ text[Len(text)] \in {"return", "value", "pass"}
    /\ Len(text) > 1

\* ------------------------- ConfigService and BaseAgent._update_llm_service
\* Someone edits config.json on disk.
EditConfigFile ==
    /\ config_file < MaxVersions
    /\ config_file' = config_file + 1
    /\ UNCHANGED <<agents_file, agents_versions, config, agents_config, agents_heap,
                   config_last_modified, agents_last_modified, environ, reader,
                   storeVars, concVars, intentVars, sandboxVars>>

\* Someone edits agents.json on disk.
EditAgentsFile ==
    /\ agents_file < MaxVersions
    /\ \E content \in AgentsContents(agents_file + 1) :
          agents_versions' = Append(agents_versions, content)
    /\ agents_file' = agents_file + 1
    /\ UNCHANGED <<config_file, config, agents_config, agents_heap,
                   config_last_modified, agents_last_modified, environ, reader,
                   storeVars, concVars, intentVars, sandboxVars>>

\* _monitor_config_changes, lines 130-136: the poll thread finds config.json
\* newer, puts a new dict in self.config and applies it (_apply_config).
MonitorConfig ==
    /\ config_file > config_last_modified
    /\ config' = config_file
    /\ config_last_modified' = config_file
    /\ environ' = config_file
    /\ UNCHANGED <<config_file, agents_file, agents_versions, agents_config,
                   agents_heap, agents_last_modified, reader,
                   storeVars, concVars, intentVars, sandboxVars>>

\* _monitor_config_changes, lines 139-144: the poll thread finds agents.json
\* newer and puts a new dict object in self.agents_config.
MonitorAgents ==
    /\ agents_file > agents_last_modified
    /\ agents_config' = agents_config + 1
    /\ agents_heap' = [agents_heap EXCEPT ![agents_config + 1] = agents_file]
    /\ agents_last_modified' = agents_file
    /\ UNCHANGED <<config_file, agents_file, agents_versions, config,
                   config_last_modified, environ, reader,
                   storeVars, concVars, intentVars, sandboxVars>>

\* update_global_config (lines 183-205): self.config.update(new_config), the
\* file written from it, the change applied.
UpdateGlobalConfig ==
    /\ config_file < MaxVersions
    /\ config' = config_file + 1
    /\ config_file' = config_file + 1
    /\ config_last_modified' = config_file + 1
    /\ environ' = config_file + 1
    /\ UNCHANGED <<agents_file, agents_versions, agents_config, agents_heap,
                   agents_last_modified, reader,
                   storeVars, concVars, intentVars, sandboxVars>>

\* update_agent_config (lines 207-235) for the agent's id: the entry found in
\* the current dict object is updated in place, then the file is written.
UpdateAgentConfig ==
    LET current == agents_versions[agents_heap[agents_config]] IN
    /\ current.agent # NoVersion
    /\ agents_file < MaxVersions
    /\ agents_versions' =
          Append(agents_versions, [current EXCEPT !.agent = agents_file + 1])
    /\ agents_heap' = [agents_heap EXCEPT ![agents_config] = agents_file + 1]
    /\ agents_file' = agents_file + 1
    /\ agents_last_modified' = agents_file + 1
    /\ UNCHANGED <<config_file, config, agents_config, config_last_modified,
                   environ, reader,
                   storeVars, concVars, intentVars, sandboxVars>>

\* get_agent_config (lines 160-165): the entry dict with that id in the
\* current self.agents_config, by reference, or None.
GetAgentConfig(entry) ==
    IF agents_versions[agents_heap[agents_config]][entry] = NoVersion
    THEN NoEntry ELSE [obj |-> agents_config]

\* entry_config.get('config', {}).get(key): what the entry object holds now.
EntryValue(ref, entry) ==
    IF ref = NoEntry THEN NoVersion ELSE agents_versions[agents_heap[ref.obj]][entry]

\* Lines 38-44 and 46-52: agent entry, else default entry, else
\* get_config_value('llm.<key>') on the current self.config.
Resolve(r) ==
    IF EntryValue(r.agent_config, "agent") # NoVersion
    THEN [from |-> "agent", v |-> EntryValue(r.agent_config, "agent")]
    ELSE IF EntryValue(r.default_config, "default") # NoVersion
    THEN [from |-> "default", v |-> EntryValue(r.default_config, "default")]
    ELSE [from |-> "llm", v |-> config]

ReaderStep(r) ==
    /\ reader' = r
    /\ UNCHANGED <<config_file, agents_file, agents_versions, config, agents_config,
                   agents_heap, config_last_modified, agents_last_modified, environ,
                   storeVars, concVars, intentVars, sandboxVars>>

\* _update_llm_service, line 30.
ReadAgentConfig ==
    /\ reader.pc = "idle"
    /\ ReaderStep([ReaderIdle EXCEPT !.pc = "l31",
                                      !.agent_config = GetAgentConfig("agent"),
                                      !.llm_service = reader.llm_service])

\* line 31.
ReadDefaultConfig ==
    /\ reader.pc = "l31"
    /\ ReaderStep([reader EXCEPT !.pc = "l38",
                                  !.default_config = GetAgentConfig("default")])

\* lines 34-44, init_service_type being None.
ResolveServiceType ==
    /\ reader.pc = "l38"
    /\ ReaderStep([reader EXCEPT !.pc = "l46", !.service_type = Resolve(reader)])

\* lines 46-52, init_model being None.
ResolveModel ==
    /\ reader.pc = "l46"
    /\ ReaderStep([reader EXCEPT !.pc = "l55", !.model = Resolve(reader)])

\* line 55.
GetService ==
    /\ reader.pc = "l55"
    /\ ReaderStep([reader EXCEPT !.pc = "idle",
                                  !.llm_service = <<reader.service_type, reader.model>>])

NextConfig ==
    \/ EditConfigFile
    \/ EditAgentsFile
    \/ MonitorConfig
    \/ MonitorAgents
    \/ UpdateGlobalConfig
    \/ UpdateAgentConfig
    \/ ReadAgentConfig
    \/ ReadDefaultConfig
    \/ ResolveServiceType
    \/ ResolveModel
    \/ GetService

InitConfig == StoreInit /\ ConcIdle /\ IntentIdle /\ SandboxIdle /\ ConfigInit

SpecConfig == InitConfig /\ [][NextConfig]_vars

\* ------------------------------------------------------ state observations
\* The bodies a session has: the cached one and the persisted one.
Bodies(s) ==
    (IF sessions_cache[s] # NotCached THEN {sessions_cache[s]} ELSE {})
    \cup (IF IsBody(session_files[s]) THEN {session_files[s]} ELSE {})

\* What get_session(s) returns in this state.
CurBody(s) == GetSessionBody(sessions_cache, session_files, s)

NoDatasetCache == [k \in SessionIds \X DatasetIds |-> None]

\* What get_dataset_data(s, d) reads from storage when the cache misses.
ColdLoad(s, d) ==
    GetDatasetDataResult(NoDatasetCache, sessions_cache, session_files,
                         dataset_files, s, d)[1]

\* A storage reference that resolves: an original file that loads, or a
\* referenced bulk file that is on disk and readable.
MetaResolves(m, d) ==
    \/ "path" \in DOMAIN m /\ LoadUpload(m.path) # None
    \/ "data_file" \in DOMAIN m /\ dataset_files[d] \notin {NoFile, Corrupt}

\* ----------------------------------------------------------------- claims
\* C1: when two add_dataset calls on one session with distinct dataset ids
\* have both completed, under any interleaving of their steps and whether or
\* not the body was cached before, both dataset ids are in the session's
\* datasets mapping, in the cache and in the persisted body.
C1_NoLostUpdate ==
    (\A t \in Threads : pc[t] = "done")
    => \A t \in Threads :
          /\ sessions_cache[ConcSession] # NotCached
          /\ ThreadDataset(t) \in DOMAIN sessions_cache[ConcSession].datasets
          /\ IsBody(session_files[ConcSession])
          /\ ThreadDataset(t) \in DOMAIN session_files[ConcSession].datasets

\* C2: for every session, cached or not, a delete_session(id) step leaves id
\* out of list_sessions and leaves no bulk file of a dataset the session had
\* recorded with one.
C2_DeleteLeavesNoBulkFile ==
    [][\A s \in SessionIds :
        (s \in MetaIds(sessions_meta) /\ s \notin MetaIds(sessions_meta'))
        => \A b \in Bodies(s) : \A d \in DOMAIN b.datasets :
              "data_file" \in DOMAIN b.datasets[d] => dataset_files'[d] = NoFile]_vars

\* C3: in every reachable state every dataset id referenced from a datasets map
\* or from a history item resolves to a retrievable payload.
C3_EveryReferenceResolves ==
    \A s \in SessionIds : \A b \in Bodies(s) :
        /\ \A d \in DOMAIN b.datasets : MetaResolves(b.datasets[d], d)
        /\ \A i \in 1..Len(b.history) :
              "datasets" \in DOMAIN b.history[i]
              => \A d \in DOMAIN b.history[i].datasets :
                    MetaResolves(b.history[i].datasets[d], d)

\* C4: no entry of a session's datasets mapping, cached or persisted, holds
\* the dataset's payload: an entry has only name, type, preview and the
\* storage references path and data_file.
MetaKeys == {"name", "type", "preview", "path", "data_file"}

C4_NoPayloadInMetadata ==
    \A s \in SessionIds : \A b \in Bodies(s) : \A d \in DOMAIN b.datasets :
        /\ DOMAIN b.datasets[d] \subseteq MetaKeys
        /\ "data_file" \in DOMAIN b.datasets[d] => b.datasets[d].data_file = d
        /\ "path" \in DOMAIN b.datasets[d] => b.datasets[d].path \in Paths

\* An analysis result recorded with its bulk file, both messages of the run in
\* the history, and the payload handed out by a full fetch.
C4_Witness ==
    \E s \in SessionIds, d \in UuidDatasetIds :
        /\ IsBody(session_files[s])
        /\ Len(session_files[s].history) = 2
        /\ d \in DOMAIN session_files[s].datasets
        /\ session_files[s].datasets[d].type = "generated"
        /\ "data_file" \in DOMAIN session_files[s].datasets[d]
        /\ dataset_files[d] \in Tables
        /\ ret = Returned(s, d, datasets_cache[<<s, d>>])
        /\ ret.val # None

\* C5: deleted is terminal: a deleted session never again has a body file,
\* datasets or history.
C5_DeletedIsTerminal ==
    \A s \in deleted :
        /\ session_files[s] = NoBodyFile
        /\ \A b \in Bodies(s) : b.datasets = EmptyMap /\ b.history = <<>>

\* C6: a get_dataset_data(s, d) call returns the payload storage holds for
\* (s, d) at the time of the call, never an earlier cached one.
C6_NoStaleRead ==
    (ret.op = "get_dataset_data" /\ ColdLoad(ret.s, ret.d) # None)
    => ret.val = ColdLoad(ret.s, ret.d)

\* C7 as stated: get_dataset_data returns None exactly when d is not in the
\* session or neither the referenced bulk file nor the original path yields
\* the payload.
C7_NoneIffNoSource ==
    ret.op = "get_dataset_data" =>
        LET datasets == CurBody(ret.s).datasets
            m == datasets[ret.d]
        IN (ret.val = None) <=>
            \/ ret.d \notin DOMAIN datasets
            \/ /\ ~("data_file" \in DOMAIN m
                    /\ LoadDatasetFromCsv(dataset_files, ret.d) # None)
               /\ ~("path" \in DOMAIN m /\ LoadUpload(m.path) # None)

\* C8: for every prompt and every model reply the result of execute has a
\* category among AGENT_TYPES and a confidence in [0, 1], and a reply whose
\* payload lacks such a category gives the keyword scorer's result.
C8_KnownCategoryAndConfidence ==
    (llm.k = "reply" /\ intent_result.k = "return") =>
        /\ KnownCategory(intent_result)
        /\ ConfidenceInRange(intent_result)
        /\ LET payload == ExtractJson(llm.text) IN
           ~(/\ payload.t = "object"
             /\ "agent_type" \in DOMAIN payload.fields
             /\ payload.fields["agent_type"] \in {JStr(a) : a \in AGENT_TYPES})
           => intent_result = RuleBased(user_prompt)

\* C9: for every reply text (not JSON, JSON that is not an object, an object
\* without agent_type, an empty reply) execute returns a result with a
\* category and does not raise.
C9_NeverRaisesOnReply ==
    llm.k = "reply" => intent_result.k = "return"

\* C10: when the language-model request fails, execute returns the keyword
\* scorer's category and confidence for the prompt.
C10_FallbackWhenUnreachable ==
    llm = RequestError => intent_result = RuleBased(user_prompt)

\* execute used the keyword scorer: the value extracted from the reply is
\* falsy or has no agent_type.
FellBack ==
    /\ llm.k = "reply"
    /\ intent_result.k = "return"
    /\ \/ ~Truthy(ExtractJson(llm.text))
       \/ HasAgentType(ExtractJson(llm.text)) = "no"

\* Index of a category in the canonical enumeration order.
OrderIndex(a) == CHOOSE i \in 1..Len(AgentTypeOrder) : AgentTypeOrder[i] = a

\* C11: the keyword scorer returns, when some keyword occurs in the prompt,
\* a category whose hits / keyword-set size is the greatest, with that value
\* as confidence; when no keyword occurs it returns data_analysis with
\* confidence 0.5 and the explanation that no signal was found.
C11_ScorerResult ==
    FellBack =>
        IF \A a \in AGENT_TYPES : user_prompt[a] = 0
        THEN /\ intent_result.agent_type = JStr("data_analysis")
             /\ intent_result.confidence.t = "number"
             /\ 2 * intent_result.confidence.n = intent_result.confidence.d
             /\ intent_result.explanation = JStr("no_signal")
        ELSE /\ intent_result.agent_type.t = "string"
             /\ intent_result.agent_type.s \in AGENT_TYPES
             /\ LET w == intent_result.agent_type.s IN
                /\ \A a \in AGENT_TYPES :
                      user_prompt[a] * KeywordCount[w] <= user_prompt[w] * KeywordCount[a]
                /\ intent_result.confidence.t = "number"
                /\ intent_result.confidence.n * KeywordCount[w]
                      = user_prompt[w] * intent_result.confidence.d

\* One keyword of data_analysis (1/11) and one of data_visualization (1/10):
\* the scorer answers data_visualization.
C11_Witness ==
    /\ FellBack
    /\ user_prompt["data_analysis"] = 1
    /\ user_prompt["data_visualization"] = 1
    /\ user_prompt["data_analysis_plan"] = 0
    /\ user_prompt["data_analysis_conclusion"] = 0
    /\ intent_result.agent_type = JStr("data_visualization")

\* C12: when several categories share the greatest normalized score, the
\* scorer's result is the first of them in the order data_analysis,
\* data_visualization, data_analysis_plan, data_analysis_conclusion.
C12_TieFirstInOrder ==
    (FellBack /\ \E a \in AGENT_TYPES : user_prompt[a] > 0) =>
        /\ intent_result.agent_type.t = "string"
        /\ intent_result.agent_type.s \in AGENT_TYPES
        /\ \A a \in AGENT_TYPES :
              user_prompt[a] * KeywordCount[intent_result.agent_type.s]
                 = user_prompt[intent_result.agent_type.s] * KeywordCount[a]
              => OrderIndex(intent_result.agent_type.s) <= OrderIndex(a)

\* data_visualization and data_analysis_plan tie at 2/10 above the others.
C12_Witness ==
    /\ FellBack
    /\ user_prompt["data_visualization"] = 2
    /\ user_prompt["data_analysis_plan"] = 2
    /\ user_prompt["data_analysis"] < 2
    /\ user_prompt["data_analysis_conclusion"] < 2
    /\ intent_result.agent_type = JStr("data_visualization")

\* C13: a POST /api/analyze whose selected_datasets hold an id that is not in
\* the session's datasets is refused, whatever the other ids are, and runs
\* no agent.
C13_AbsentRefFails ==
    [][(/\ ret'.op = "analyze"
        /\ \E d \in ret'.selected : d \notin DOMAIN CurBody(ret'.s).datasets)
       => (ret'.status # "200" /\ ret'.handler = "none")]_vars

\* C14: a POST /api/analyze none of whose selected ids is a dataset of the
\* session with a table that loads (an empty selection included) is refused
\* with status 400 before UserIntentAgent or any agent is called, and the
\* session's datasets and history are what they were.
C14_NoValidInputRefused ==
    [][\A s \in SessionIds :
          (/\ ret'.op = "analyze"
           /\ ret'.s = s
           /\ \A d \in ret'.selected :
                 \/ d \notin DOMAIN CurBody(s).datasets
                 \/ ColdLoad(s, d) = None)
          => (/\ ret'.status = "400"
              /\ ~ret'.routed
              /\ ret'.handler = "none"
              /\ CurBody(s)'.datasets = CurBody(s).datasets
              /\ CurBody(s)'.history = CurBody(s).history
              /\ session_files' = session_files
              /\ dataset_files' = dataset_files)]_vars

\* A request that selected a dataset of the session whose table does not
\* load was refused.
C14_Witness ==
    /\ ret.op = "analyze"
    /\ ret.status = "400"
    /\ ret.selected \cap DOMAIN CurBody(ret.s).datasets # {}

\* C15: when the agent_type found is none of the four handled ones,
\* analyze_data returns (status 200) a body with success false and
\* result_type "error", having appended the user message and one assistant
\* message of result_type "error" to the history, and the session's datasets
\* are what they were.
C15_UnknownIntentAnswered ==
    [][\A s \in SessionIds :
          (/\ ret'.op = "analyze"
           /\ ret'.s = s
           /\ ret'.routed
           /\ ret'.status = "200"
           /\ ret'.handler = "none")
          => (/\ ~ret'.success
              /\ ret'.result_type = "error"
              /\ ret'.datasets = EmptyMap
              /\ sessions_cache'[s] # NotCached
              /\ sessions_cache'[s].history =
                    CurBody(s).history \o <<UserItem, AssistantItem("error")>>
              /\ sessions_cache'[s].datasets = CurBody(s).datasets
              /\ dataset_files' = dataset_files)]_vars

\* An unhandled agent_type was answered on a session that has a dataset.
C15_Witness ==
    /\ ret.op = "analyze"
    /\ ret.status = "200"
    /\ ret.handler = "none"
    /\ ret.result_type = "error"
    /\ DOMAIN CurBody(ret.s).datasets # {}
    /\ Len(CurBody(ret.s).history) = 2

\* C16: after an analysis request that returned, the ids of the returned
\* datasets are new to the session and are the generated datasets it gained,
\* the assistant message appended last lists exactly those ids, and
\* get_dataset_data on each of them returns the table the analysis produced
\* for it.
C16_ResultsPersisted ==
    [][\A s \in SessionIds :
          (/\ ret'.op = "analyze"
           /\ ret'.s = s
           /\ ret'.status = "200"
           /\ ret'.handler = "data_analysis")
          => LET new == DOMAIN ret'.datasets
                 before == CurBody(s)
                 after == sessions_cache'[s]
             IN /\ new \cap DOMAIN before.datasets = {}
                /\ DOMAIN after.datasets = DOMAIN before.datasets \cup new
                /\ \A d \in new : after.datasets[d].type = "generated"
                /\ DOMAIN after.history[Len(after.history)].datasets = new
                /\ \A d \in new :
                      GetDatasetDataResult(datasets_cache', sessions_cache',
                                           session_files', dataset_files', s, d)[1]
                         = ret'.produced[d]]_vars

\* The keys of the returned dict whose value is not a DataFrame.
BadLabels(value) ==
    {value.items[i][1] : i \in {j \in 1..Len(value.items) :
                                    ~IsDataFrame(value.items[j][2])}}

\* The exception by which execute refuses the shape of a result (lines 91, 95).
ShapeError(r) ==
    /\ r.k = "raise"
    /\ r.exc = "TypeError"
    /\ r.msg \in {"not_dict", "not_dataframe"}

\* C17: when the generated analyze_data returns something that is not a
\* dict, execute raises the result-shape error; when it returns a dict one
\* of whose values is not a DataFrame, execute raises that error naming a
\* key with such a value; in neither case does it return a mapping.
C17_InvalidShapeRaises ==
    behaviour.run = "returns" =>
        /\ behaviour.value.shape # "dict" =>
              /\ ShapeError(analysis_result)
              /\ analysis_result.msg = "not_dict"
        /\ (behaviour.value.shape = "dict" /\ BadLabels(behaviour.value) # {}) =>
              /\ ShapeError(analysis_result)
              /\ analysis_result.msg = "not_dataframe"
              /\ analysis_result.label \in BadLabels(behaviour.value)

\* A dict whose first value is a DataFrame and whose second is not was
\* refused, naming the second key.
C17_Witness ==
    /\ behaviour.run = "returns"
    /\ behaviour.value.shape = "dict"
    /\ Len(behaviour.value.items) = 2
    /\ IsDataFrame(behaviour.value.items[1][2])
    /\ ~IsDataFrame(behaviour.value.items[2][2])
    /\ analysis_result.k = "raise"
    /\ analysis_result.label = behaviour.value.items[2][1]

\* C18: a module without a callable analyze_data is refused with
\* ContractViolation, an exception raised while the generated code is
\* loaded or run reaches the caller as GeneratedCodeError carrying the
\* original message, and a wrong result shape is refused with the
\* result-shape error; none of the three returns a result.
C18_OwnErrorKinds ==
    (behaviour.llm = "ok" /\ behaviour.write = "ok") =>
        /\ (behaviour.load = "ok" /\ behaviour.entry \in {"missing", "not_callable"}) =>
              /\ analysis_result.k = "raise"
              /\ analysis_result.exc = "ContractViolation"
        /\ (behaviour.load \in CodeExceptions \/ behaviour.run \in CodeExceptions) =>
              /\ analysis_result.k = "raise"
              /\ analysis_result.exc = "GeneratedCodeError"
              /\ analysis_result.msg = "from_code"
        /\ (/\ behaviour.run = "returns"
            /\ \/ behaviour.value.shape # "dict"
               \/ BadLabels(behaviour.value) # {}) =>
              ShapeError(analysis_result)

\* C19: when a run of execute that created its temporary file has ended,
\* however it ended, that file is not on disk.
C19_TempFileRemoved ==
    (analysis_result.k # "idle" /\ behaviour.llm = "ok") =>
        temp_module_path \notin temp_dir

\* C20: the text _extract_code_from_response returns is the longest fenced
\* block when the reply has fenced blocks, otherwise the longest match of
\* the analyze_data(dfs) definition when it has one, otherwise the reply
\* itself; it returns a text for every reply.
C20_ExtractionOrder ==
    behaviour.llm = "ok" =>
        /\ generated_code # NoCode
        /\ IF raw_content.fenced # <<>>
           THEN /\ generated_code.part = "fenced"
                /\ generated_code.i \in 1..Len(raw_content.fenced)
                /\ \A j \in 1..Len(raw_content.fenced) :
                      raw_content.fenced[j] <= raw_content.fenced[generated_code.i]
           ELSE IF raw_content.defs # <<>>
           THEN /\ generated_code.part = "def"
                /\ generated_code.i \in 1..Len(raw_content.defs)
                /\ \A j \in 1..Len(raw_content.defs) :
                      raw_content.defs[j] <= raw_content.defs[generated_code.i]
           ELSE generated_code = [part |-> "raw", i |-> 0]

\* Of two fenced blocks of 50 and 120 characters the second was returned,
\* though the reply also held a definition of analyze_data outside them.
C20_Witness ==
    /\ behaviour.llm = "ok"
    /\ raw_content.fenced = <<50, 120>>
    /\ raw_content.defs # <<>>
    /\ generated_code = [part |-> "fenced", i |-> 2]

\* C21: a table saved through the store and loaded back from its bulk file
\* by get_dataset_data on a cold cache is the table saved, but for a missing
\* cell, which is 0 in a numeric column and the empty string in any other.
C21_RoundTripFilled ==
    \A s \in SessionIds, d \in DatasetIds :
        (/\ d \in DOMAIN CurBody(s).datasets
         /\ "data_file" \in DOMAIN CurBody(s).datasets[d]
         /\ dataset_files[d] \notin {NoFile, Corrupt})
        => \E t \in Tables :
              /\ dataset_files[d] = ToCsv(t)
              /\ ColdLoad(s, d) = Filled(t)

\* C22: the cached body of a session never holds a dataset entry or a
\* history item that the persisted body does not hold: a call of add_dataset
\* or add_history whose file write fails leaves the cache as it was.
C22_CacheOnlyPersisted ==
    \A s \in SessionIds :
        sessions_cache[s] # NotCached =>
            LET cached == sessions_cache[s]
                persisted == LoadSessionData(session_files, s)
            IN /\ \A d \in DOMAIN cached.datasets :
                     /\ d \in DOMAIN persisted.datasets
                     /\ persisted.datasets[d] = cached.datasets[d]
               /\ \A i \in 1..Len(cached.history) :
                     /\ i <= Len(persisted.history)
                     /\ persisted.history[i] = cached.history[i]

\* C23: delete_session(id) returns true exactly when id is in the session
\* index at the time of the call, and the HTTP layer answers 404 exactly when
\* it returned false.
C23_DeleteReportsUnknown ==
    [][ret'.op = "delete_session"
       => /\ ret'.success <=> ret'.s \in MetaIds(sessions_meta)
          /\ ret'.status = "404" <=> ~ret'.success]_vars

\* C24: rename_session(id, name) returns true and sets that session's name
\* when id is in the index, and returns false and changes nothing when it is
\* not; either way every record keeps its id and created_at, the records of
\* the other sessions are unchanged, and no body, cache or file changes.
C24_RenameFrame ==
    [][ret'.op = "rename_session"
       => LET known == ret'.s \in MetaIds(sessions_meta) IN
          /\ ret'.success <=> known
          /\ Len(sessions_meta') = Len(sessions_meta)
          /\ \A i \in 1..Len(sessions_meta) :
                /\ sessions_meta'[i].id = sessions_meta[i].id
                /\ sessions_meta'[i].created_at = sessions_meta[i].created_at
                /\ sessions_meta[i].id # ret'.s => sessions_meta'[i] = sessions_meta[i]
                /\ sessions_meta[i].id = ret'.s => sessions_meta'[i].name = ret'.name
          /\ ~known => sessions_meta' = sessions_meta /\ meta_file' = meta_file
          /\ known => meta_file' = sessions_meta'
          /\ UNCHANGED <<session_files, dataset_files, sessions_cache,
                         datasets_cache>>]_vars

\* A rename that succeeded on a session holding a dataset, next to another
\* session that kept its name.
C24_Witness ==
    /\ ret.op = "rename_session"
    /\ ret.success
    /\ ret.s \in IndexIds
    /\ DOMAIN CurBody(ret.s).datasets # {}
    /\ Len(sessions_meta) = 2
    /\ \E i, j \in 1..2 :
          /\ sessions_meta[i].id = ret.s
          /\ sessions_meta[i].name = "renamed"
          /\ sessions_meta[j].id # ret.s
          /\ sessions_meta[j].name = "new"

\* The datasets a history item embeds.
ItemDatasets(item) == IF "datasets" \in DOMAIN item THEN item.datasets ELSE EmptyMap

\* No item of a history holds an inline payload, and a bulk file an item
\* references is the one named by the dataset id.
NoInlinePayload(history) ==
    \A i \in 1..Len(history) :
        \A d \in DOMAIN ItemDatasets(history[i]) :
            /\ "data" \notin DOMAIN history[i].datasets[d]
            /\ "data_file" \in DOMAIN history[i].datasets[d]
                  => history[i].datasets[d].data_file = d

\* C25: add_history externalizes every dataset embedded inline in the item
\* before the item is appended: after every step no history item, in the
\* cache or in the persisted body, holds an inline payload, and after a call
\* every embedded dataset whose write succeeded has its bulk file, named by
\* the dataset id, on disk and referenced from the appended item.
C25_HistoryExternalized ==
    [][/\ \A s \in SessionIds :
             /\ sessions_cache'[s] # NotCached => NoInlinePayload(sessions_cache'[s].history)
             /\ IsBody(session_files'[s]) => NoInlinePayload(session_files'[s].history)
       /\ \A s \in SessionIds :
             (/\ sessions_cache'[s] # NotCached
              /\ Len(sessions_cache'[s].history) = Len(CurBody(s).history) + 1)
             => \A item \in {i \in HistoryArgs : InlineIds(i) # {}},
                   save \in WriteOutcomes :
             \A csvOf \in [InlineIds(item) -> CsvOutcomes] :
             AddHistory(s, item, csvOf, save)
             => LET history == sessions_cache'[s].history
                    appended == history[Len(history)]
                IN \A d \in InlineIds(item) :
                      csvOf[d] = "ok"
                      => /\ appended.datasets[d].data_file = d
                         /\ dataset_files'[d] = ToCsv(item.datasets[d].data)]_vars

\* A persisted history item references the bulk file written for the dataset
\* it embedded.
C25_Witness ==
    \E s \in SessionIds :
        /\ IsBody(session_files[s])
        /\ sessions_cache[s] = session_files[s]
        /\ \E i \in 1..Len(session_files[s].history) :
              \E d \in DOMAIN ItemDatasets(session_files[s].history[i]) :
                 /\ "data_file" \in DOMAIN session_files[s].history[i].datasets[d]
                 /\ dataset_files[d] \in Tables

\* C26: list_sessions, get_datasets and get_history are pure reads: with any
\* session id, known, unknown or deleted, a call leaves the session index,
\* the session cache and every file as they were.
C26_ReadsArePure ==
    [][(ListSessions \/ \E s \in IndexIds : GetDatasets(s))
       => UNCHANGED <<sessions_meta, meta_file, session_files, dataset_files,
                      sessions_cache>>]_vars

\* C28: delete_session is best-effort: when a removal fails, the call still
\* returns, the session is dropped from the index and the cache, and of the
\* body file and the bulk files of the session's datasets only those whose
\* removal failed are still on disk.
C28_BestEffortDelete ==
    [][(ret'.op = "delete_session" /\ faults' > faults)
       => \A s \in SessionIds :
            ret'.s = s
            => /\ ret'.success
               /\ s \notin MetaIds(sessions_meta')
               /\ s \notin MetaIds(meta_file')
               /\ sessions_cache'[s] = NotCached
               /\ Cardinality({d \in DOMAIN CurBody(s).datasets :
                                  dataset_files'[d] # NoFile})
                  + (IF session_files'[s] # NoBodyFile THEN 1 ELSE 0)
                  = faults' - faults]_vars

\* A delete whose body file could not be removed and that removed the bulk
\* file of the session's dataset all the same.
C28_Witness ==
    \E s \in SessionIds, d \in DatasetIds :
        /\ ret.op = "delete_session"
        /\ ret.s = s
        /\ faults > 0
        /\ IsBody(session_files[s])
        /\ d \in DOMAIN session_files[s].datasets
        /\ "data_file" \in DOMAIN session_files[s].datasets[d]
        /\ dataset_files[d] = NoFile
        /\ sessions_cache[s] = NotCached
        /\ s \notin MetaIds(sessions_meta)

\* The positions of the index that hold a record of session s.
RecordsOf(meta, s) == {i \in 1..Len(meta) : meta[i].id = s}

\* C27: create_session(name) yields a session whose id is neither in the
\* index nor was ever given before; afterwards the index holds that id exactly
\* once, with the given name and created_at = updated_at, the body read from
\* disk and the cached body of the session are the empty body (the body file
\* itself is the empty body when its write went through), and no other
\* session's record, body, cache entry or bulk file has changed.
C27_CreateFresh ==
    [][\A name \in Names, now \in Times, save \in WriteOutcomes :
          (ret'.op = "create_session" /\ CreateSession(name, now, save))
          => \A id \in IndexIds :
                ret'.val.id = id
                => /\ id \notin MetaIds(sessions_meta) \cup issued \cup {OldSession}
                   /\ Cardinality(RecordsOf(sessions_meta', id)) = 1
                   /\ \A i \in RecordsOf(sessions_meta', id) :
                         /\ sessions_meta'[i] = ret'.val
                         /\ sessions_meta'[i].name = name
                         /\ sessions_meta'[i].created_at = sessions_meta'[i].updated_at
                   /\ meta_file' = sessions_meta'
                   /\ LoadSessionData(session_files', id) = NewBody
                   /\ save = "ok" => session_files'[id] = NewBody
                   /\ sessions_cache'[id] = NewBody
                   /\ SubSeq(sessions_meta', 1, Len(sessions_meta)) = sessions_meta
                   /\ Len(sessions_meta') = Len(sessions_meta) + 1
                   /\ \A s \in IndexIds \ {id} :
                         /\ session_files'[s] = session_files[s]
                         /\ sessions_cache'[s] = sessions_cache[s]
                   /\ UNCHANGED <<dataset_files, datasets_cache>>]_vars

\* A session just created next to an older one that holds a dataset.
C27_Witness ==
    /\ ret.op = "create_session"
    /\ ret.val.name = "renamed"
    /\ Len(sessions_meta) = 2
    /\ sessions_meta[1].id = OldSession
    /\ sessions_meta[2] = ret.val
    /\ DOMAIN CurBody(OldSession).datasets # {}
    /\ session_files[ret.val.id] = NewBody
    /\ sessions_cache[ret.val.id] = NewBody

\* C29: delete_session(id) evicts every cache entry of the session: after
\* the call neither the session cache nor the dataset cache holds an entry
\* keyed by id, and get_dataset_data(id, d) returns None for every dataset d.
C29_DeleteEvictsCaches ==
    [][ret'.op = "delete_session"
       => \A s \in SessionIds, d \in DatasetIds :
            ret'.s = s
            => /\ sessions_cache'[s] = NotCached
               /\ datasets_cache'[<<s, d>>] = None
               /\ GetDatasetDataResult(datasets_cache', sessions_cache',
                                       session_files', dataset_files', s, d)[1]
                  = None]_vars

\* What one resolution gives when every value comes from agents version
\* `content` and global version vc.
Resolution(content, vc) ==
    LET value == IF content.agent # NoVersion
                 THEN [from |-> "agent", v |-> content.agent]
                 ELSE IF content.default # NoVersion
                 THEN [from |-> "default", v |-> content.default]
                 ELSE [from |-> "llm", v |-> vc]
    IN <<value, value>>

\* C30: a reader running next to the poll thread's reload or to
\* update_global_config / update_agent_config never sees a half-updated
\* view: the service_type and model one resolution ends with are those of
\* one single version of the agents configuration and of the global one.
C30_SnapshotReads ==
    reader.pc = "l55"
    => \E va \in 1..Len(agents_versions), vc \in 1..config_file :
          <<reader.service_type, reader.model>>
              = Resolution(agents_versions[va], vc)

\* C31: when the reply has no fenced block and is one definition of
\* analyze_data(dfs), the extractor returns that definition whole, from its
\* 'def' through its last return statement or pass, whatever the number of
\* return statements and whether or not a value follows the keyword.
C31_DefinitionWhole ==
    ("text" \in DOMAIN raw_content /\ OneDefinition(raw_content.text)) =>
        generated_code.text = raw_content.text

\* Whether `before` is the beginning of `after`, item for item.
IsPrefix(before, after) ==
    /\ Len(before) <= Len(after)
    /\ \A i \in 1..Len(before) : after[i] = before[i]

HistoryNow(s) == GetSessionBody(sessions_cache, session_files, s).history
HistoryNext(s) == GetSessionBody(sessions_cache', session_files', s).history

C34_BodyCacheIsView ==
    faults = 0 =>
        \A s \in SessionIds :
            sessions_cache[s] # NotCached
                => sessions_cache[s] = LoadSessionData(session_files, s)

\* C34: as long as no file write has failed, every cached session body is
\* what _load_session_data reads for that session (the body file, or the
\* empty body when there is none), and every cached dataset payload is what
\* get_dataset_data loads from the dataset's storage on a cold cache.
C34_CacheIsView ==
    /\ C34_BodyCacheIsView
    /\ faults = 0 =>
          \A s \in SessionIds, d \in DatasetIds :
              datasets_cache[<<s, d>>] # None
                  => datasets_cache[<<s, d>>] = ColdLoad(s, d)

\* C35: when the agent a POST /api/analyze runs raises (answer 500), the
\* session is what it was when the request began: the same datasets map, the
\* same bulk files and the same history, with no user item left behind.
C35_FailureConfined ==
    [][\A s \in SessionIds :
          (/\ ret'.op = "analyze"
           /\ ret'.s = s
           /\ ret'.status = "500"
           /\ ret'.handler \in AGENT_TYPES)
          => /\ GetSessionBody(sessions_cache', session_files', s).datasets
                   = CurBody(s).datasets
             /\ dataset_files' = dataset_files
             /\ HistoryNext(s) = HistoryNow(s)]_vars

\* What get_dataset_data(s, d) returns in this state, and in the next.
DataNow(s, d) ==
    GetDatasetDataResult(datasets_cache, sessions_cache, session_files,
                         dataset_files, s, d)[1]
DataNext(s, d) ==
    GetDatasetDataResult(datasets_cache', sessions_cache', session_files',
                         dataset_files', s, d)[1]

\* C36: delete_session(a) leaves every other session b as it was: the body
\* get_session returns for b (datasets map and history), the records of the
\* index other than a's, in their order, and what get_dataset_data returns for each dataset of b.
C36_DeleteLeavesOthers ==
    [][\A a \in IndexIds :
          (ret'.op = "delete_session" /\ ret'.s = a)
          => \A b \in IndexIds \ {a} :
                /\ GetSessionBody(sessions_cache', session_files', b)
                      = GetSessionBody(sessions_cache, session_files, b)
                /\ SelectSeq2(sessions_meta', a) = SelectSeq2(sessions_meta, a)
                /\ SelectSeq2(meta_file', a) = SelectSeq2(meta_file, a)
                /\ \A d \in DOMAIN GetSessionBody(sessions_cache, session_files, b).datasets :
                      DataNext(b, d) = DataNow(b, d)]_vars

\* C37: when a create_session call and a delete_session call on another
\* session have both returned, in whatever order their statements ran, the
\* created session is in the list list_sessions returns and in sessions.json,
\* and the deleted one is in neither.
C37_CreateSurvivesDelete ==
    (race.create = "done" /\ race.delete = "done")
    => /\ race.session_meta.id \in MetaIds(sessions_meta)
       /\ race.session_meta.id \in MetaIds(meta_file)
       /\ OldSession \notin MetaIds(sessions_meta)
       /\ OldSession \notin MetaIds(meta_file)

\* C38: however the ConfigService() calls of several threads interleave,
\* every call gets the one instance, _load_all_configs has run once when
\* the calls have returned, and no more than one monitor thread is ever
\* started.
C38_InitializedOnce ==
    /\ ctor.monitors <= 1
    /\ ctor.loads <= 1
    /\ (\A t \in CtorThreads : ctor.at[t] = "done")
          => /\ \A t, u \in CtorThreads : ctor.self[t] = ctor.self[u]
             /\ ctor.loads = 1
             /\ ctor.initialized

====
